---- MODULE Spec2Model ----
(***************************************************************************)
(* Model of the command-line importer plugin, src/omero/plugins/import.py: *)
(* the CommandArguments argument set (classification and rendering of the  *)
(* options, skip shortcuts, path list, external argument vector) and the   *)
(* bulk-import driver of ImportControl (include chain, merge, descriptor   *)
(* header, row source, dry run, external process, status of the run).      *)
(*                                                                         *)
(* Python strings are TLA+ strings; a Python value is a record             *)
(*   [t |-> its type, s |-> its text (what "%s" renders), l |-> its items].*)
(***************************************************************************)
EXTENDS Integers, Sequences, FiniteSets, TLC

VARIABLES
    ca,         \* the CommandArguments instance (its fields, and its ctx)
    call,       \* the method call that produced this state
    ret,        \* what that call returned (java_args) or built (arg_list)
    given,      \* external key -> the value of its latest successful add
    ncalls,     \* number of calls counted against the bounds
    fs,         \* the descriptor files: absolute path -> parsed mapping
    cwd,        \* the working directory of the process
    pc,         \* bulk run: position in bulk_import
    old_pwd,    \* bulk run: the working directory bulk_import started in
    contents,   \* bulk run: the loaded chain, root first
    bulkfile,   \* bulk run: the descriptor to load next
    bulk,       \* bulk run: the merged mapping
    cont,       \* bulk run: parse_bulk's cont
    cols,       \* bulk run: parse_bulk's cols
    rowpath,    \* bulk run: parse_bulk's path, the row source
    rowfiles,   \* the row-source files: absolute path -> lines of characters
    lineno,     \* bulk run: lines the row-source generator has handed out
    incr,       \* bulk run: bulk_import's incr
    failed,     \* bulk run: bulk_import's failed
    total,      \* bulk run: bulk_import's total
    procs,      \* the external processes started, in order
    statuses,   \* the exit statuses p.wait() returned, in order
    out,        \* the texts written with ctx.out
    errlog,     \* the messages written with ctx.err
    files,      \* the files written by a dry run: name -> text
    applied,    \* added_args() as each row left it, in order
    handles,    \* the log files that are open
    disk,       \* the log files: absolute path -> what was written to it
    env,        \* the installation: client jars, files that cannot be opened
    archive,    \* download_omero_java: the file names of the fetched archive
    extracted,  \* download_omero_java: the file names extracted to the cache
    marker,     \* download_omero_java: the text of OMERO.java.txt, if written
    holder,     \* ROI_utils: the shape data holder
    shape       \* ROI_utils: the remote shape

\* The state of a bulk run.
bulkvars == <<fs, cwd, pc, old_pwd, contents, bulkfile, bulk, cont, cols, rowpath>>

\* The state of the loop over the rows of a bulk run.
runvars == <<rowfiles, lineno, incr, failed, total, procs, statuses, out,
             errlog, files, applied>>

\* The files and the installation around a run.
iovars == <<handles, disk, env, archive, extracted, marker, holder, shape>>

vars == <<ca, call, ret, given, ncalls, bulkvars, runvars, iovars>>

----------------------------------------------------------------------------
(* Bounds of the model.                                                    *)

MaxAdds == 3        \* add calls in one behaviour of Spec
MaxSkipLen == 2     \* length of a skip list handed to set_skip_values
MaxChain == 3       \* descriptors loaded along one include chain
MaxRows == 3        \* lines of a row-source file
MaxPlane == 2       \* the largest Z and T of a shape

----------------------------------------------------------------------------
(* Python values.                                                          *)

Str(s) == [t |-> "str", s |-> s, l |-> <<>>]
List(l) == [t |-> "list", s |-> "", l |-> l]
None == [t |-> "none", s |-> "None", l |-> <<>>]
True == [t |-> "bool", s |-> "True", l |-> <<>>]
False == [t |-> "bool", s |-> "False", l |-> <<>>]
Int4 == [t |-> "int", s |-> "4", l |-> <<>>]
NO_ARG == [t |-> "object", s |-> "<object>", l |-> <<>>]

\* isinstance(val, basestring)
isstring(val) == val.t = "str"

\* isinstance(val, list)
islist(val) == val.t = "list"

\* bool(val)
truthy(val) ==
    CASE val.t = "str" -> val.s # ""
      [] val.t = "list" -> val.l # <<>>
      [] val.t = "none" -> FALSE
      [] val.t = "bool" -> val.s = "True"
      [] val.t = "int" -> val.s # "0"
      [] OTHER -> TRUE

\* The characters of the option names and of the texts of the model.
Chars(key) ==
    CASE key = "d" -> <<"d">>
      [] key = "c" -> <<"c">>
      [] key = "f" -> <<"f">>
      [] key = "n" -> <<"n">>
      [] key = "file" -> <<"f", "i", "l", "e">>
      [] key = "errs" -> <<"e", "r", "r", "s">>
      [] key = "bulk" -> <<"b", "u", "l", "k">>
      [] key = "skip" -> <<"s", "k", "i", "p">>
      [] key = "path" -> <<"p", "a", "t", "h">>
      [] key = "depth" -> <<"d", "e", "p", "t", "h">>
      [] key = "javahelp" -> <<"j", "a", "v", "a", "h", "e", "l", "p">>
      [] key = "logprefix" -> <<"l", "o", "g", "p", "r", "e", "f", "i", "x">>
      [] key = "no_stats_info" ->
            <<"n", "o", "_", "s", "t", "a", "t", "s", "_", "i", "n", "f", "o">>
      [] key = "JAVA_DEBUG" -> <<"J", "A", "V", "A", "_", "D", "E", "B", "U", "G">>
      [] key = "True" -> <<"T", "r", "u", "e">>
      [] key = "False" -> <<"F", "a", "l", "s", "e">>
      [] key = "/tmp/%s.sh" -> <<"/", "t", "m", "p", "/", "%", "s", ".", "s", "h">>
      [] key = "advanced_help" ->
            <<"a", "d", "v", "a", "n", "c", "e", "d", "_", "h", "e", "l", "p">>
      [] key = "" -> <<>>
      [] key = "x.sh" -> <<"x", ".", "s", "h">>
      [] key = ".csv" -> <<".", "c", "s", "v">>
      [] key = ".tsv" -> <<".", "t", "s", "v">>
      [] key = "rows.txt" -> <<"r", "o", "w", "s", ".", "t", "x", "t">>
      [] key = "rows.csv" -> <<"r", "o", "w", "s", ".", "c", "s", "v">>
      [] key = "rows.tsv" -> <<"r", "o", "w", "s", ".", "t", "s", "v">>

\* len(key)
len(key) == Len(Chars(key))

RECURSIVE replace_chars(_, _, _)
replace_chars(cs, old, new) ==
    IF cs = <<>> THEN ""
    ELSE (IF Head(cs) = old THEN new ELSE Head(cs)) \o replace_chars(Tail(cs), old, new)

\* key.replace(old, new)
replace(key, old, new) == replace_chars(Chars(key), old, new)

\* The lower-case form of a character.
lower_char(ch) ==
    CASE ch = "T" -> "t"
      [] ch = "F" -> "f"
      [] OTHER -> ch

RECURSIVE lower_chars(_)
lower_chars(cs) ==
    IF cs = <<>> THEN "" ELSE lower_char(Head(cs)) \o lower_chars(Tail(cs))

\* text.lower()
lower(text) == lower_chars(Chars(text))

----------------------------------------------------------------------------
(* Module constants of import.py.                                          *)

SKIP_CHOICES == {"all", "checksum", "minmax", "thumbnails", "upgrade"}

\* CommandArguments.__py_keys
py_keys ==
    {"javahelp", "skip", "file", "errs", "logback",
     "port", "password", "group", "create", "func",
     "bulk", "prog", "user", "key", "path", "logprefix",
     "JAVA_DEBUG", "quiet", "server", "depth", "clientdir",
     "fetch_jars",
     "sudo"}

\* The attributes an instance can carry: the Python keys, and dry_run.
AttrNames == py_keys \cup {"dry_run"}

\* An attribute that was never set.
Unset == [t |-> "unset", s |-> "", l |-> <<>>]

----------------------------------------------------------------------------
(* CommandArguments.                                                       *)

\* ctx.die(code, msg): the run ends with this code.
die(c, code) == [c EXCEPT !.ctx.died = code]

\* setattr(self, key, val)
setattr(c, key, val) == [c EXCEPT !.attrs[key] = val]

\* build_arg_list with the underscores of the key left in place
build_arg_list_underscores(key, val) ==
    IF len(key) = 1
    THEN IF val # NO_ARG /\ isstring(val) THEN <<"-" \o key, val.s>> ELSE <<"-" \o key>>
    ELSE IF val # NO_ARG /\ isstring(val) THEN <<"--" \o key \o "=" \o val.s>>
         ELSE <<"--" \o key>>

build_arg_list(key, val) ==
    IF len(key) = 1
    THEN LET arg_list == <<"-" \o key>>
         IN  IF val # NO_ARG
             THEN IF isstring(val) THEN Append(arg_list, val.s) ELSE arg_list
             ELSE arg_list
    ELSE LET k == replace(key, "_", "-")
         IN  IF val = NO_ARG THEN <<"--" \o k>>
             ELSE IF isstring(val) THEN <<"--" \o k \o "=" \o val.s>>
             ELSE <<"--" \o k>>

append_arg(cmd_list, key, val) == cmd_list \o build_arg_list(key, val)

\* reset_arg that puts the rendition in at idx and takes nothing out
reset_arg_insert(cmd_list, idx, key, val) ==
    SubSeq(cmd_list, 1, idx) \o build_arg_list(key, val)
        \o SubSeq(cmd_list, idx + 1, Len(cmd_list))

\* cmd_list[idx:idx+len(arg_list)] = arg_list, idx counted from 0
reset_arg(cmd_list, idx, key, val) ==
    LET arg_list == build_arg_list(key, val)
    IN  SubSeq(cmd_list, 1, idx) \o arg_list
            \o SubSeq(cmd_list, idx + Len(arg_list) + 1, Len(cmd_list))

\* set_path that stores the value before it looks at its type
set_path_unchecked(c, path) ==
    LET c1 == setattr(c, "path", path)
    IN  IF ~islist(path) THEN die(c1, 202) ELSE c1

set_path(c, path) ==
    IF ~islist(path) THEN die(c, 202) ELSE setattr(c, "path", path)

\* java_args with the path list put before the additional arguments
java_args_paths_first(c) ==
    LET rv1 == <<>> \o c.java_initial
        rv2 == rv1 \o c.attrs["path"].l
        rv3 == rv2 \o c.java_additional
    IN  IF truthy(c.attrs["JAVA_DEBUG"])
        THEN Append(rv3, "--debug=" \o c.attrs["JAVA_DEBUG"].s)
        ELSE rv3

java_args(c) ==
    LET rv1 == <<>> \o c.java_initial
        rv2 == rv1 \o c.java_additional
        rv3 == rv2 \o c.attrs["path"].l
    IN  IF truthy(c.attrs["JAVA_DEBUG"])
        THEN Append(rv3, "--debug=" \o c.attrs["JAVA_DEBUG"].s)
        ELSE rv3

initial_args(c) == c.py_initial \o c.java_initial

added_args(c) == c.py_additional \o c.java_additional \o c.attrs["path"].l

accepts(c, key) == key \in c.accepts

\* add that renders a Python key into the external additional arguments
add_python_key_external(c, key, val) ==
    LET c1 == IF key \in py_keys THEN setattr(c, key, val) ELSE c
    IN  IF key \notin py_keys /\ ~accepts(c, key)
        THEN die(c, 200)
        ELSE IF key \notin DOMAIN c.added
             THEN [c1 EXCEPT !.java_additional = append_arg(@, key, val),
                             !.added = (key :> Len(c.java_additional)) @@ @]
             ELSE [c1 EXCEPT !.java_additional = reset_arg(@, c.added[key], key, val)]

\* add without the check of the accepted keys
add_unchecked(c, key, val) ==
    LET c1 == IF key \in py_keys THEN setattr(c, key, val) ELSE c
        where == IF key \in py_keys THEN "py_additional" ELSE "java_additional"
    IN  IF key \notin DOMAIN c.added
        THEN [c1 EXCEPT ![where] = append_arg(@, key, val),
                        !.added = (key :> Len(c[where])) @@ @]
        ELSE [c1 EXCEPT ![where] = reset_arg(@, c.added[key], key, val)]

\* add that checks the accepted keys only when the key was added before
add_checks_on_readd(c, key, val) ==
    IF key \in py_keys
    THEN LET c1 == setattr(c, key, val)
         IN  IF key \notin DOMAIN c.added
             THEN [c1 EXCEPT !.py_additional = append_arg(@, key, val),
                             !.added = (key :> Len(c.py_additional)) @@ @]
             ELSE [c1 EXCEPT !.py_additional = reset_arg(@, c.added[key], key, val)]
    ELSE IF key \notin DOMAIN c.added
         THEN [c EXCEPT !.java_additional = append_arg(@, key, val),
                        !.added = (key :> Len(c.java_additional)) @@ @]
         ELSE IF ~accepts(c, key)
         THEN die(c, 200)
         ELSE [c EXCEPT !.java_additional = reset_arg(@, c.added[key], key, val)]

add(c, key, val) ==
    IF key \in py_keys
    THEN LET c1 == setattr(c, key, val)
         IN  IF key \notin DOMAIN c.added
             THEN [c1 EXCEPT !.py_additional = append_arg(@, key, val),
                             !.added = (key :> Len(c.py_additional)) @@ @]
             ELSE [c1 EXCEPT !.py_additional = reset_arg(@, c.added[key], key, val)]
    ELSE IF ~accepts(c, key)
    THEN die(c, 200)
    ELSE IF key \notin DOMAIN c.added
         THEN [c EXCEPT !.java_additional = append_arg(@, key, val),
                        !.added = (key :> Len(c.java_additional)) @@ @]
         ELSE [c EXCEPT !.java_additional = reset_arg(@, c.added[key], key, val)]

\* x in skip
contains(skip, x) == \E i \in DOMAIN skip : skip[i] = x

\* set_skip_values with the flags in the order of SKIP_CHOICES
set_skip_values_alphabetical(c, skip) ==
    LET j0 == c.java_initial
        j1 == IF contains(skip, "all") \/ contains(skip, "checksum")
              THEN Append(j0, "--checksum-algorithm=File-Size-64") ELSE j0
        j2 == IF contains(skip, "all") \/ contains(skip, "minmax")
              THEN Append(j1, "--no-stats-info") ELSE j1
        j3 == IF contains(skip, "all") \/ contains(skip, "thumbnails")
              THEN Append(j2, "--no-thumbnails") ELSE j2
        j4 == IF contains(skip, "all") \/ contains(skip, "upgrade")
              THEN Append(j3, "--no-upgrade-check") ELSE j3
    IN  [c EXCEPT !.java_initial = j4]

set_skip_values(c, skip) ==
    LET j0 == c.java_initial
        j1 == IF contains(skip, "all") \/ contains(skip, "checksum")
              THEN Append(j0, "--checksum-algorithm=File-Size-64") ELSE j0
        j2 == IF contains(skip, "all") \/ contains(skip, "thumbnails")
              THEN Append(j1, "--no-thumbnails") ELSE j1
        j3 == IF contains(skip, "all") \/ contains(skip, "minmax")
              THEN Append(j2, "--no-stats-info") ELSE j2
        j4 == IF contains(skip, "all") \/ contains(skip, "upgrade")
              THEN Append(j3, "--no-upgrade-check") ELSE j3
    IN  [c EXCEPT !.java_initial = j4]

set_skip_arguments(c, args) ==
    IF ~truthy(args["skip"]) THEN c ELSE set_skip_values(c, args["skip"].l)

set_login_arguments(c, ctx, args) ==
    LET c1 == IF truthy(args["javahelp"])
              THEN [c EXCEPT !.java_initial = Append(@, "-h")] ELSE c
        connection_required ==
            /\ ~contains(c1.java_initial, "-h")
            /\ ~truthy(args["f"])
            /\ ~truthy(args["advanced_help"])
    IN  IF connection_required
        THEN [c1 EXCEPT !.java_initial =
                 @ \o <<"-s", ctx.host>> \o <<"-p", ctx.port>> \o <<"-k", ctx.session>>]
        ELSE c1

\* vars(args), in the order the parser declares the options
ArgOrder ==
    <<"javahelp", "bulk", "logprefix", "file", "errs",
      "f", "c", "d", "JAVA_DEBUG", "advanced_help", "no_stats_info",
      "depth", "skip", "path">>

\* The loop over vars(args) of __init__, from the i-th key on.
RECURSIVE init_keys(_, _, _)
init_keys(c, args, i) ==
    IF i > Len(ArgOrder) THEN c
    ELSE LET key == ArgOrder[i]
             val == args[key]
             c1 == [c EXCEPT !.accepts = @ \cup {key}]
             c2 == IF key \in py_keys
                   THEN [setattr(c1, key, val) EXCEPT
                            !.py_initial = append_arg(@, key, val)]
                   ELSE IF ~truthy(val) THEN c1
                   ELSE [c1 EXCEPT !.java_initial = append_arg(@, key, val)]
         IN  init_keys(c2, args, i + 1)

\* CommandArguments(ctx, args)
CommandArguments(ctx, args) ==
    LET c0 == [ctx |-> ctx, args |-> args, accepts |-> {}, added |-> <<>>,
               java_initial |-> <<>>, java_additional |-> <<>>,
               py_initial |-> <<>>, py_additional |-> <<>>,
               attrs |-> [a \in AttrNames |-> Unset]]
        c1 == set_login_arguments(c0, ctx, args)
        c2 == set_skip_arguments(c1, args)
    IN  init_keys(c2, args, 1)

----------------------------------------------------------------------------
(* The environment of one invocation: the context and the parsed options.  *)

\* The CLI context: the session the login produced, the status it reports.
Ctx == [host |-> "localhost", port |-> "4064", session |-> "uuid",
        rv |-> 0, died |-> 0]

\* The installation: client says whether the directory of the client jars
\* holds jars ("jars") or none ("empty"); locked holds the log files that
\* cannot be opened; java says whether the external process can be started.
Env(client, locked, java) == [client |-> client, locked |-> locked, java |-> java]

\* No log file is open or written, the installation is complete, nothing is
\* fetched.
NoIO ==
    /\ handles = {}
    /\ disk = <<>>
    /\ env = Env("jars", {}, TRUE)
    /\ archive = {}
    /\ extracted = {}
    /\ marker = <<>>
    /\ holder = <<>>
    /\ shape = <<>>

\* The parsed options of one invocation.
Args(javahelp, bulkv, d, debug, skip, path) ==
    [k \in {ArgOrder[i] : i \in DOMAIN ArgOrder} |->
        CASE k = "javahelp" -> javahelp
          [] k = "bulk" -> bulkv
          [] k = "d" -> d
          [] k = "JAVA_DEBUG" -> debug
          [] k = "skip" -> skip
          [] k = "path" -> path
          [] k = "depth" -> Int4
          [] k \in {"f", "c", "advanced_help", "no_stats_info"} -> False
          [] OTHER -> None]

----------------------------------------------------------------------------
(* Spec: one argument set, constructed from the options of an invocation   *)
(* and then driven through its methods add, set_path and java_args.        *)

\* The option values an invocation is started with.
StartArgs ==
    {Args(javahelp, None, None, debug, None, List(<<"img.tif">>)) :
        javahelp \in {False, True}, debug \in {None, Str("ALL")}}

\* The keys add is called with: external ones (d, no_stats_info), Python ones
\* (file, JAVA_DEBUG) and one that no option declares (n).  parse_bulk never
\* hands the key path to add: it pops it, and sends a column of that name to
\* set_path.
AddKeys == {"d", "no_stats_info", "file", "JAVA_DEBUG", "n"}

\* The values add is called with: none, strings, a non-string.
AddVals == {NO_ARG, Str("ALL"), Str("INFO"), True}

\* The values set_path is called with.
PathVals == {List(<<>>), List(<<"a.tif", "b.tif">>), Str("a.tif")}

NoCall == [op |-> "new", key |-> "", val |-> None]

\* No bulk run.
Idle ==
    /\ fs = <<>>
    /\ cwd = "/w"
    /\ pc = "idle"
    /\ old_pwd = ""
    /\ contents = <<>>
    /\ bulkfile = None
    /\ bulk = <<>>
    /\ cont = FALSE
    /\ cols = None
    /\ rowpath = None
    /\ rowfiles = <<>>
    /\ lineno = 0
    /\ incr = 0
    /\ failed = 0
    /\ total = 0
    /\ procs = <<>>
    /\ statuses = <<>>
    /\ out = <<>>
    /\ errlog = <<>>
    /\ files = <<>>
    /\ applied = <<>>
    /\ NoIO

Init ==
    /\ \E args \in StartArgs : ca = CommandArguments(Ctx, args)
    /\ call = NoCall
    /\ ret = <<>>
    /\ given = <<>>
    /\ ncalls = 0
    /\ Idle

Add(key, val) ==
    /\ ca.ctx.died = 0
    /\ ncalls < MaxAdds
    /\ ca' = add(ca, key, val)
    /\ call' = [op |-> "add", key |-> key, val |-> val]
    /\ ret' = IF ca'.ctx.died # 0 THEN <<>> ELSE build_arg_list(key, val)
    /\ given' = IF ca'.ctx.died = 0 /\ key \notin py_keys
                THEN (key :> val) @@ given ELSE given
    /\ ncalls' = ncalls + 1
    /\ UNCHANGED <<bulkvars, runvars, iovars>>

SetPath(path) ==
    /\ ca.ctx.died = 0
    /\ ca' = set_path(ca, path)
    /\ call' = [op |-> "set_path", key |-> "", val |-> path]
    /\ ret' = <<>>
    /\ UNCHANGED <<given, ncalls, bulkvars, runvars, iovars>>

JavaArgs ==
    /\ ca.ctx.died = 0
    /\ ret' = java_args(ca)
    /\ call' = [op |-> "java_args", key |-> "", val |-> None]
    /\ UNCHANGED <<ca, given, ncalls, bulkvars, runvars, iovars>>

Next ==
    \/ \E key \in AddKeys, val \in AddVals : Add(key, val)
    \/ \E path \in PathVals : SetPath(path)
    \/ JavaArgs

Spec == Init /\ [][Next]_vars

----------------------------------------------------------------------------
(* Properties of the argument set.                                         *)

\* The external keys that hold a slot of the additional arguments.
JavaAdded(c) == {k \in DOMAIN c.added : k \notin py_keys}

\* The tokens at the slot of key k, as long as the rendition of (k, val).
Slot(c, k, val) ==
    SubSeq(c.java_additional, c.added[k] + 1,
           c.added[k] + Len(build_arg_list(k, val)))

\* The positions of the additional arguments that the slot of k spans.
SlotRange(c, k, val) ==
    (c.added[k] + 1) .. (c.added[k] + Len(build_arg_list(k, val)))

\* The argument set without its context.
Arguments(c) == [f \in DOMAIN c \ {"ctx"} |-> c[f]]

\* C1: after add(key, v1), adds of other keys and add(key, v2), the
\* additional arguments hold exactly one rendition of every added key, at
\* the index of its first add, and it is the rendering of the latest value:
\* every token of the sequence belongs to the latest rendition of one key.
C1_ReAddKeepsOneRendition ==
    /\ \A k \in JavaAdded(ca) : Slot(ca, k, given[k]) = build_arg_list(k, given[k])
    /\ \A i \in 1 .. Len(ca.java_additional) :
          Cardinality({k \in JavaAdded(ca) : i \in SlotRange(ca, k, given[k])}) = 1

\* C2: re-adding a key leaves the rendered tokens and the index of every
\* other added key as they were.
C2_ReAddLeavesOtherKeys ==
    [][(/\ call'.op = "add"
        /\ ca'.ctx.died = 0
        /\ call'.key \in JavaAdded(ca))
       => \A j \in JavaAdded(ca) \ {call'.key} :
             /\ ca'.added[j] = ca.added[j]
             /\ Slot(ca', j, given[j]) = Slot(ca, j, given[j])]_vars

\* C3: java_args returns the initial arguments, then the additional ones,
\* then the path list, then --debug=<level> if and only if a debug level is
\* recorded, and it changes nothing of the argument set.
C3_JavaArgsOrder ==
    /\ [](call.op = "java_args" =>
            LET n1 == Len(ca.java_initial)
                n2 == Len(ca.java_additional)
                n3 == Len(ca.attrs["path"].l)
                debug == truthy(ca.attrs["JAVA_DEBUG"])
            IN  /\ Len(ret) = n1 + n2 + n3 + (IF debug THEN 1 ELSE 0)
                /\ \A i \in 1 .. n1 : ret[i] = ca.java_initial[i]
                /\ \A i \in 1 .. n2 : ret[n1 + i] = ca.java_additional[i]
                /\ \A i \in 1 .. n3 : ret[n1 + n2 + i] = ca.attrs["path"].l[i]
                /\ debug => ret[Len(ret)] = "--debug=" \o ca.attrs["JAVA_DEBUG"].s)
    /\ [][call'.op = "java_args" => ca' = ca]_vars

\* C3 happens: java_args was called with all four parts present.
C3_Witness ==
    /\ call.op = "java_args"
    /\ ca.java_initial # <<>>
    /\ ca.java_additional # <<>>
    /\ ca.attrs["path"].l # <<>>
    /\ truthy(ca.attrs["JAVA_DEBUG"])
    /\ Len(ret) > 3

\* The external vector without the parts that Python keys are known to own.
FlagsOnly(c) == c.java_initial \o c.java_additional

\* C4 as stated: an orchestrator key that is set holds its latest value as
\* an attribute, and setting it changes no token of java_args().
C4_OrchestratorKeyNeverRendered ==
    [][(/\ call'.op = "add"
        /\ call'.key \in py_keys)
       => /\ ca'.attrs[call'.key] = call'.val
          /\ java_args(ca') = java_args(ca)]_vars

\* C4 as amended: an orchestrator key that is set holds its latest value as
\* an attribute; add renders it into the Python-side additional arguments
\* and leaves the external flags alone; java_args() changes only for
\* JAVA_DEBUG, whose true value it renders as the trailing --debug=<level>,
\* and for path, whose list set_path replaces.
C4_OrchestratorKeyKept ==
    /\ [](\A k \in py_keys \cap ca.accepts :
            /\ ca.attrs[k] # Unset
            /\ (k \notin DOMAIN ca.added /\ k # "path") => ca.attrs[k] = ca.args[k])
    /\ [][(/\ call'.op = "add"
           /\ call'.key \in py_keys)
          => /\ ca'.attrs[call'.key] = call'.val
             /\ FlagsOnly(ca') = FlagsOnly(ca)
             /\ call'.key # "JAVA_DEBUG" => java_args(ca') = java_args(ca)
             /\ call'.key = "JAVA_DEBUG" =>
                   java_args(ca') = FlagsOnly(ca) \o ca.attrs["path"].l
                       \o (IF truthy(call'.val)
                           THEN <<"--debug=" \o call'.val.s>> ELSE <<>>)]_vars
    /\ [][(call'.op = "set_path" /\ ca'.ctx.died = 0)
          => /\ ca'.attrs["path"] = call'.val
             /\ FlagsOnly(ca') = FlagsOnly(ca)]_vars

\* C4 happens: a Python key other than JAVA_DEBUG was re-added, next to
\* external additional arguments.
C4_Witness ==
    /\ call.op = "add"
    /\ call.key = "file"
    /\ ca.attrs["file"] = Str("INFO")
    /\ Len(ca.py_additional) > 1
    /\ ca.java_additional # <<>>

\* C5: add with a key that is neither a Python key nor accepted ends the
\* run with code 200 and leaves the argument set as it was.
C5_UnknownKeyIsFatal ==
    [][(/\ call'.op = "add"
        /\ call'.key \notin py_keys
        /\ call'.key \notin ca.accepts)
       => /\ ca'.ctx.died = 200
          /\ Arguments(ca') = Arguments(ca)]_vars

\* C5 happens: an unknown key was added after other keys.
C5_Witness ==
    /\ call.op = "add"
    /\ call.key = "n"
    /\ ca.ctx.died = 200
    /\ ca.java_additional # <<>>
    /\ ca.py_additional # <<>>

\* C6: set_path replaces the whole path list when it is given a list, and
\* otherwise ends the run with code 202 and leaves the path list as it was.
C6_SetPath ==
    [][call'.op = "set_path"
       => IF islist(call'.val)
          THEN /\ ca'.attrs["path"] = call'.val
               /\ ca'.ctx.died = 0
          ELSE /\ ca'.attrs["path"] = ca.attrs["path"]
               /\ ca'.ctx.died = 202]_vars

\* C6 happens: set_path was refused while a path list was set.
C6_Witness ==
    /\ call.op = "set_path"
    /\ ~islist(call.val)
    /\ ca.ctx.died = 202
    /\ ca.attrs["path"] = List(<<"a.tif", "b.tif">>)

\* The option names with their underscores written as hyphens.
Hyphenated(key) ==
    CASE key = "no_stats_info" -> "no-stats-info"
      [] key = "JAVA_DEBUG" -> "JAVA-DEBUG"
      [] key = "file" -> "file"

\* C7: the rendition of (key, value): -k v for a one-character key and a
\* string, -k alone for no value or a non-string; --key=v with hyphens for
\* underscores for a longer key and a string, --key alone otherwise.
C7_Rendering ==
    (call.op = "add" /\ ca.ctx.died = 0) =>
        LET k == call.key
            v == call.val
        IN  /\ (len(k) = 1 /\ isstring(v)) => ret = <<"-" \o k, v.s>>
            /\ (len(k) = 1 /\ ~isstring(v)) => ret = <<"-" \o k>>
            /\ (len(k) > 1 /\ isstring(v)) =>
                  ret = <<"--" \o Hyphenated(k) \o "=" \o v.s>>
            /\ (len(k) > 1 /\ ~isstring(v)) => ret = <<"--" \o Hyphenated(k)>>

\* C7 happens: a key with two underscores was rendered with a string value.
C7_Witness ==
    /\ call.op = "add"
    /\ call.key = "no_stats_info"
    /\ ret = <<"--no-stats-info=ALL">>

----------------------------------------------------------------------------
(* SpecSkip: an argument set constructed with top-level skip options, and  *)
(* set_skip_values called on it with every short list of shortcuts.        *)

\* The skip options an invocation is started with.
StartSkips == {None, List(<<"all">>), List(<<"minmax", "checksum">>)}

\* The lists of shortcuts set_skip_values is called with.
SkipLists == UNION {[1 .. n -> SKIP_CHOICES] : n \in 0 .. MaxSkipLen}

InitSkip ==
    /\ \E skip \in StartSkips, javahelp \in {False, True} :
          ca = CommandArguments(Ctx,
                  Args(javahelp, None, None, None, skip, List(<<"img.tif">>)))
    /\ call = NoCall
    /\ ret = <<>>
    /\ given = <<>>
    /\ ncalls = 0
    /\ Idle

\* parse_bulk calls set_skip_values once, after the constructor did.
SetSkipValues(skip) ==
    /\ ncalls < 1
    /\ ca' = set_skip_values(ca, skip)
    /\ call' = [op |-> "set_skip_values", key |-> "", val |-> List(skip)]
    /\ ret' = <<>>
    /\ ncalls' = ncalls + 1
    /\ UNCHANGED <<given, bulkvars, runvars, iovars>>

NextSkip == \E skip \in SkipLists : SetSkipValues(skip)

SpecSkip == InitSkip /\ [][NextSkip]_vars

\* The flag of a shortcut.
FlagOf(shortcut) ==
    CASE shortcut = "checksum" -> "--checksum-algorithm=File-Size-64"
      [] shortcut = "thumbnails" -> "--no-thumbnails"
      [] shortcut = "minmax" -> "--no-stats-info"
      [] shortcut = "upgrade" -> "--no-upgrade-check"

\* The fixed order of the flags.
FlagOrder == <<"checksum", "thumbnails", "minmax", "upgrade">>

\* The flags of the shortcuts that a list names or implies by all, in the
\* fixed order.
SkipFlags(skip) ==
    LET named == {skip[i] : i \in DOMAIN skip}
        sel == SelectSeq(FlagOrder, LAMBDA x : x \in named \/ "all" \in named)
    IN  [i \in 1 .. Len(sel) |-> FlagOf(sel[i])]

\* C8: set_skip_values appends one flag per shortcut named or implied by
\* all, in the order checksum, thumbnails, minmax, upgrade whatever the
\* order of the list; [all] appends what the four shortcuts append.
C8_SkipExpansion ==
    /\ [][call'.op = "set_skip_values"
          => ca'.java_initial = ca.java_initial \o SkipFlags(call'.val.l)]_vars
    /\ [](set_skip_values(ca, <<"all">>)
            = set_skip_values(ca, <<"checksum", "thumbnails", "minmax", "upgrade">>))

\* C8 happens: a list in another order than the fixed one was expanded.
C8_Witness ==
    /\ call.op = "set_skip_values"
    /\ call.val.l = <<"minmax", "thumbnails">>
    /\ Len(ca.java_initial) >= 2
    /\ SubSeq(ca.java_initial, Len(ca.java_initial) - 1, Len(ca.java_initial))
          = <<"--no-thumbnails", "--no-stats-info">>

----------------------------------------------------------------------------
(* ImportControl.bulk_import and parse_bulk.                               *)

\* The directories and the file names of the model.
Dirs == {"/w", "/a", "/b"}
Names == {"a.yml", "b.yml", "c.yml", "rows.txt", "rows.csv", "rows.tsv"}

\* os.path.isabs(p)
isabs(p) == \E d \in Dirs, n \in Names : p = d \o "/" \o n

\* os.path.abspath(p), in the working directory dir
abspath(dir, p) == IF isabs(p) THEN p ELSE dir \o "/" \o p

\* os.path.dirname(p) of an absolute path
dirname(p) == CHOOSE d \in Dirs : \E n \in Names : p = d \o "/" \o n

\* data.get(key)
get(data, key) == IF key \in DOMAIN data THEN data[key] ELSE None

\* bulk.update(data)
update(b, data) ==
    [k \in DOMAIN b \cup DOMAIN data |-> IF k \in DOMAIN data THEN data[k] ELSE b[k]]

\* bulk.pop(key), for the mapping that is left
pop(b, key) == [k \in DOMAIN b \ {key} |-> b[k]]

\* The loop over reversed(contents), from the i-th entry down to the first.
RECURSIVE merge_reversed(_, _, _)
merge_reversed(chain, i, b) ==
    IF i = 0 THEN b ELSE merge_reversed(chain, i - 1, update(b, chain[i].data))

\* The same loop run over contents as loaded, root first.
RECURSIVE merge_forward(_, _, _)
merge_forward(chain, i, b) ==
    IF i > Len(chain) THEN b ELSE merge_forward(chain, i + 1, update(b, chain[i].data))

\* merge with the chain applied root first
merge_root_first(chain) == merge_forward(chain, 1, <<>>)

\* bulk = dict(); for ... in reversed(contents): bulk.update(data)
merge(chain) == merge_reversed(chain, Len(chain), <<>>)

\* parse_bulk that takes no value of dry_run for a dry run
parse_bulk_dry_run_off(c, b) == setattr(c, "dry_run", False)

\* parse_bulk: the dry_run key
parse_bulk_dry_run(c, b) ==
    LET c1 == setattr(c, "dry_run", False)
    IN  IF "dry_run" \in DOMAIN b
        THEN LET dry_run == Str(b["dry_run"].s)
             IN  IF lower(dry_run.s) # "false"
                 THEN setattr(c1, "dry_run", dry_run) ELSE c1
        ELSE c1

\* parse_bulk: the continue key
parse_bulk_continue(c, b) ==
    IF "continue" \in DOMAIN b /\ truthy(b["continue"])
    THEN add(c, "c", NO_ARG) ELSE c

\* parse_bulk without its skip key
parse_bulk_skip_ignored(c, b) == c

\* parse_bulk: the skip key
parse_bulk_skip(c, b) ==
    IF "skip" \in DOMAIN b THEN set_skip_values(c, b["skip"].l) ELSE c

\* The keys parse_bulk handles itself.
SpecialKeys == {"dry_run", "continue", "skip", "path", "columns", "include"}

\* for key in bulk: command_args.add(key, bulk[key]), in the order given;
\* a fatal add ends the loop.
RECURSIVE add_keys(_, _, _, _)
add_keys(c, b, order, i) ==
    IF i > Len(order) \/ c.ctx.died # 0 THEN c
    ELSE add_keys(add(c, order[i], b[order[i]]), b, order, i + 1)

\* parse_bulk that does not ask for a path
parse_bulk_path_optional(c, b, order) ==
    LET c1 == parse_bulk_dry_run(c, b)
        c2 == parse_bulk_continue(c1, b)
        c3 == parse_bulk_skip(c2, b)
    IN  add_keys(c3, b, order, 1)

\* parse_bulk up to its loop over the rows: the argument set it leaves.
parse_bulk(c, b, order) ==
    LET c1 == parse_bulk_dry_run(c, b)
        c2 == parse_bulk_continue(c1, b)
        c3 == parse_bulk_skip(c2, b)
    IN  IF "path" \notin DOMAIN b
        THEN die(c3, 107)
        ELSE add_keys(c3, b, order, 1)

\* The orders in which a mapping can hand out the keys of a set.
Orders(keys) ==
    {o \in [1 .. Cardinality(keys) -> keys] :
        \A i, j \in DOMAIN o : i # j => o[i] # o[j]}

----------------------------------------------------------------------------
(* SpecBulk: one bulk run over a tree of descriptor files.                 *)

\* A key a descriptor does not declare.
Absent == [t |-> "absent", s |-> "", l |-> <<>>]

\* The mapping that declares the keys whose value is not Absent.
Mapping(entries) ==
    LET declared == {e \in entries : e[2] # Absent}
    IN  [k \in {e[1] : e \in declared} |-> (CHOOSE e \in declared : e[1] = k)[2]]

\* The root descriptor /a/a.yml.
RootDescriptors ==
    {Mapping({<<"d", d>>, <<"include", include>>, <<"skip", skip>>,
              <<"path", rows>>, <<"continue", continue>>}) :
        d \in {Absent, Str("1")},
        include \in {Absent, Str("/b/b.yml")},
        skip \in {Absent, List(<<"upgrade">>), List(<<"minmax", "checksum">>)},
        rows \in {Absent, Str("rows.txt")},
        continue \in {Absent, True}}

\* The descriptor /b/b.yml, which includes its neighbour c.yml.
MiddleDescriptors ==
    {Mapping({<<"d", d>>, <<"include", include>>}) :
        d \in {Absent, Str("2")}, include \in {Absent, Str("c.yml")}}

\* The descriptor /b/c.yml, which may include itself.
BaseDescriptors ==
    {Mapping({<<"d", d>>, <<"file", Str("o.log")>>, <<"include", include>>}) :
        d \in {Absent, Str("3")}, include \in {Absent, Str("c.yml")}}

Includes(data, target) == get(data, "include") = Str(target)

\* The files of a run: the root, and the files that the chain reaches or
\* misses.
FileSystems ==
    {("/a/a.yml" :> a) : a \in RootDescriptors}
    \cup {("/a/a.yml" :> a) @@ ("/b/b.yml" :> b) :
            a \in {x \in RootDescriptors : Includes(x, "/b/b.yml")},
            b \in MiddleDescriptors}
    \cup {("/a/a.yml" :> a) @@ ("/b/b.yml" :> b) @@ ("/b/c.yml" :> c) :
            a \in {x \in RootDescriptors : Includes(x, "/b/b.yml")},
            b \in {x \in MiddleDescriptors : Includes(x, "c.yml")},
            c \in BaseDescriptors}

InitBulk ==
    /\ \E skip \in {None, List(<<"checksum">>), List(<<"all">>)} :
          ca = CommandArguments(Ctx,
                  Args(False, Str("/a/a.yml"), None, None, skip, List(<<>>)))
    /\ fs \in FileSystems
    /\ cwd = "/w"
    /\ pc = "bulk_import"
    /\ call = NoCall
    /\ ret = <<>>
    /\ given = <<>>
    /\ ncalls = 0
    /\ old_pwd = ""
    /\ contents = <<>>
    /\ bulkfile = None
    /\ bulk = <<>>
    /\ cont = FALSE
    /\ cols = None
    /\ rowpath = None
    /\ rowfiles = <<>>
    /\ lineno = 0
    /\ incr = 0
    /\ failed = 0
    /\ total = 0
    /\ procs = <<>>
    /\ statuses = <<>>
    /\ out = <<>>
    /\ errlog = <<>>
    /\ files = <<>>
    /\ applied = <<>>
    /\ NoIO

\* bulk_import, up to the loop over the include chain (PyYAML is installed,
\* so safe_load is imported)
BulkImport ==
    /\ pc = "bulk_import"
    /\ old_pwd' = cwd
    /\ contents' = <<>>
    /\ bulkfile' = ca.attrs["bulk"]
    /\ pc' = "load"
    /\ call' = [op |-> "bulk_import", key |-> "", val |-> None]
    /\ UNCHANGED <<ca, ret, given, ncalls, fs, cwd, bulk, cont, cols, rowpath, runvars, iovars>>

\* One turn of the loop "while bulkfile": the descriptor is opened and
\* loaded; a file that does not exist raises.
LoadDescriptor ==
    /\ pc = "load"
    /\ truthy(bulkfile)
    /\ Len(contents) < MaxChain
    /\ LET file == abspath(cwd, bulkfile.s)
           parent == dirname(file)
       IN  IF file \notin DOMAIN fs
           THEN /\ pc' = "finally"
                /\ call' = [op |-> "open", key |-> "IOError", val |-> Str(file)]
                /\ UNCHANGED <<contents, bulkfile, cwd>>
           ELSE /\ contents' = Append(contents,
                       [bulkfile |-> file, parent |-> parent, data |-> fs[file]])
                /\ bulkfile' = get(fs[file], "include")
                /\ cwd' = parent
                /\ call' = [op |-> "open", key |-> "", val |-> Str(file)]
                /\ UNCHANGED pc
    /\ UNCHANGED <<ca, ret, given, ncalls, fs, old_pwd, bulk, cont, cols, rowpath, runvars, iovars>>

\* The chain is loaded: it is merged into bulk, the deepest descriptor
\* first, with a chdir to the directory of each.
Merge ==
    /\ pc = "load"
    /\ ~truthy(bulkfile)
    /\ bulk' = merge(contents)
    /\ cwd' = IF contents = <<>> THEN cwd ELSE contents[1].parent
    /\ pc' = "parse_bulk"
    /\ call' = [op |-> "merge", key |-> "", val |-> None]
    /\ UNCHANGED <<ca, ret, given, ncalls, fs, old_pwd, contents, bulkfile,
                   cont, cols, rowpath, runvars, iovars>>

\* parse_bulk, up to its loop over the rows: the special keys are popped,
\* every other key is added; without a path, or with an unknown key, the
\* run dies.  At pc = "rows" the loop over the rows of the row source begins.
ParseBulk ==
    /\ pc = "parse_bulk"
    /\ \E order \in Orders(DOMAIN bulk \ SpecialKeys) :
          ca' = parse_bulk(ca, bulk, order)
    /\ cont' = ("continue" \in DOMAIN bulk)
    /\ rowpath' = get(bulk, "path")
    /\ cols' = get(bulk, "columns")
    /\ bulk' = [k \in DOMAIN bulk \ (IF "path" \in DOMAIN bulk
                                     THEN SpecialKeys
                                     ELSE {"dry_run", "continue", "skip"})
                  |-> bulk[k]]
    /\ pc' = IF ca'.ctx.died # 0 THEN "finally" ELSE "rows"
    /\ call' = [op |-> "parse_bulk", key |-> "", val |-> get(bulk, "skip")]
    /\ UNCHANGED <<ret, given, ncalls, fs, cwd, old_pwd, contents, bulkfile, runvars, iovars>>

\* The end of bulk_import without the chdir of its finally clause
Finally_no_chdir ==
    /\ pc = "finally"
    /\ cwd' = cwd
    /\ pc' = "exit"
    /\ UNCHANGED <<ca, call, ret, given, ncalls, fs, old_pwd, contents, bulkfile,
                   bulk, cont, cols, rowpath, runvars, iovars>>

\* finally: os.chdir(old_pwd)
Finally ==
    /\ pc = "finally"
    /\ cwd' = old_pwd
    /\ pc' = "exit"
    /\ UNCHANGED <<ca, call, ret, given, ncalls, fs, old_pwd, contents, bulkfile,
                   bulk, cont, cols, rowpath, runvars, iovars>>

NextBulk ==
    \/ BulkImport
    \/ LoadDescriptor
    \/ Merge
    \/ ParseBulk
    \/ Finally

SpecBulk == InitBulk /\ [][NextBulk]_vars

----------------------------------------------------------------------------
(* Properties of the bulk run.                                             *)

\* How often a token occurs in a sequence of tokens.
Count(tokens, token) == Cardinality({i \in DOMAIN tokens : tokens[i] = token})

\* The skip flags of a skip option: none when the option is not a list.
SkipFlagsOf(val) == IF islist(val) THEN SkipFlags(val.l) ELSE <<>>

\* C9 as stated: when the merged descriptor declares a skip list, the
\* external vector holds, after parse_bulk applied it, exactly the skip
\* flags of that list, each once, whatever the top-level skip options were.
C9_SkipFlagsRederived ==
    (call.op = "parse_bulk" /\ islist(call.val)) =>
        \A i \in DOMAIN FlagOrder :
            Count(java_args(ca), FlagOf(FlagOrder[i]))
                = Count(SkipFlags(call.val.l), FlagOf(FlagOrder[i]))

\* C9 as amended: parse_bulk appends the flags of the descriptor's skip
\* list, each once and in the fixed order, to the initial arguments; the
\* flags of the top-level skip options stay, so the vector holds each flag
\* once for the top-level options and once for the descriptor's list.
C9_SkipFlagsAppended ==
    /\ [][call'.op = "parse_bulk"
          => ca'.java_initial = ca.java_initial \o SkipFlagsOf(get(bulk, "skip"))]_vars
    /\ [](call.op = "parse_bulk" =>
            \A i \in DOMAIN FlagOrder :
                Count(java_args(ca), FlagOf(FlagOrder[i]))
                    = Count(SkipFlagsOf(ca.args["skip"]), FlagOf(FlagOrder[i]))
                      + Count(SkipFlagsOf(call.val), FlagOf(FlagOrder[i])))

\* C9 happens: the descriptor and the top-level options both skip the
\* checksum, and the run goes on to the rows.
C9_Witness ==
    /\ call.op = "parse_bulk"
    /\ call.val = List(<<"minmax", "checksum">>)
    /\ ca.args["skip"] = List(<<"checksum">>)
    /\ ca.ctx.died = 0
    /\ Count(java_args(ca), "--checksum-algorithm=File-Size-64") = 2
    /\ Count(java_args(ca), "--no-stats-info") = 1

\* C10: the merged mapping holds every key that a descriptor of the chain
\* declares, with the value of the descriptor closest to the root that
\* declares it.
C10_RootWins ==
    pc = "parse_bulk" =>
        /\ DOMAIN bulk = UNION {DOMAIN contents[i].data : i \in DOMAIN contents}
        /\ \A k \in DOMAIN bulk :
              \E i \in DOMAIN contents :
                 /\ k \in DOMAIN contents[i].data
                 /\ \A j \in 1 .. (i - 1) : k \notin DOMAIN contents[j].data
                 /\ bulk[k] = contents[i].data[k]

\* C10 happens: a chain of three descriptors, a key that the root and the
\* deepest one declare, and a key that only the deepest one declares.
C10_Witness ==
    /\ pc = "parse_bulk"
    /\ Len(contents) = 3
    /\ "d" \in DOMAIN contents[1].data
    /\ "d" \in DOMAIN contents[3].data
    /\ contents[3].data["d"] = Str("3")
    /\ bulk["d"] = Str("1")
    /\ "file" \notin DOMAIN contents[1].data
    /\ bulk["file"] = Str("o.log")

----------------------------------------------------------------------------
(* The row source: parse_text, parse_shlex, parse_tsv, parse_csv.  A line  *)
(* of a row-source file is its sequence of characters, without the line    *)
(* terminator; the lines of the model hold no quote and no backslash.      *)

\* The characters that str.strip() and shlex.split() take for whitespace.
Whitespace == {" ", "\t", "\n"}

RECURSIVE lstrip(_)
lstrip(cs) ==
    IF cs # <<>> /\ Head(cs) \in Whitespace THEN lstrip(Tail(cs)) ELSE cs

RECURSIVE rstrip(_)
rstrip(cs) ==
    IF cs # <<>> /\ cs[Len(cs)] \in Whitespace
    THEN rstrip(SubSeq(cs, 1, Len(cs) - 1)) ELSE cs

\* line.strip()
strip(cs) == lstrip(rstrip(cs))

\* "".join(cs)
RECURSIVE join(_)
join(cs) == IF cs = <<>> THEN "" ELSE Head(cs) \o join(Tail(cs))

\* shlex.split(line): the words between runs of whitespace; word is the
\* word in progress.
RECURSIVE shlex_split(_, _)
shlex_split(cs, word) ==
    LET done == IF word = "" THEN <<>> ELSE <<word>>
    IN  IF cs = <<>> THEN done
        ELSE IF Head(cs) \in Whitespace THEN done \o shlex_split(Tail(cs), "")
        ELSE shlex_split(Tail(cs), word \o Head(cs))

\* One line of csv.reader(data, delimiter=delimiter): the fields between
\* the delimiters; field is the field in progress.
RECURSIVE csv_fields(_, _, _)
csv_fields(cs, delimiter, field) ==
    IF cs = <<>> THEN <<field>>
    ELSE IF Head(cs) = delimiter
    THEN <<field>> \o csv_fields(Tail(cs), delimiter, "")
    ELSE csv_fields(Tail(cs), delimiter, field \o Head(cs))

\* parse_text that strips the line at its end only
parse_text_rstrip(line, parse) ==
    LET l == rstrip(line)
    IN  <<IF parse THEN List(shlex_split(l, "")) ELSE Str(join(l))>>

\* What parse_text yields for one line: a list of one element, the stripped
\* line, or with parse the list of its words.
parse_text(line, parse) ==
    LET l == strip(line)
    IN  <<IF parse THEN List(shlex_split(l, "")) ELSE Str(join(l))>>

\* What parse_shlex yields for one line.
parse_shlex(line) == parse_text(line, TRUE)

\* What parse_csv yields for one line: the list of its fields.
parse_csv(line, delimiter) ==
    LET fields == IF line = <<>> THEN <<>> ELSE csv_fields(line, delimiter, "")
    IN  [i \in 1 .. Len(fields) |-> Str(fields[i])]

\* What parse_tsv yields for one line.
parse_tsv(line) == parse_csv(line, "\t")

\* path.endswith(suffix)
endswith(text, suffix) ==
    LET cs == Chars(text)
        n == Len(Chars(suffix))
    IN  Len(cs) >= n /\ SubSeq(cs, Len(cs) - n + 1, Len(cs)) = Chars(suffix)

\* parse_bulk: the function chosen for the row source.
function(columns, path) ==
    IF ~truthy(columns) THEN "parse_text"
    ELSE IF endswith(path, ".tsv") THEN "parse_tsv"
    ELSE IF endswith(path, ".csv") THEN "parse_csv"
    ELSE "parse_shlex"

\* function(path), for one line of the file
parts_of(fn, line) ==
    CASE fn = "parse_text" -> parse_text(line, FALSE)
      [] fn = "parse_shlex" -> parse_shlex(line)
      [] fn = "parse_tsv" -> parse_tsv(line)
      [] fn = "parse_csv" -> parse_csv(line, ",")

\* repr of the items of a list of strings
RECURSIVE repr_items(_)
repr_items(l) ==
    IF l = <<>> THEN ""
    ELSE "'" \o Head(l) \o "'"
         \o (IF Len(l) > 1 THEN ", " ELSE "") \o repr_items(Tail(l))

\* An item of a path list: a string is itself, a list (which is no path) is
\* written as its repr.
item(val) == IF isstring(val) THEN val.s ELSE "[" \o repr_items(val.l) \o "]"

\* [parts[idx]], and parts itself, as a path list
path_list(parts) == List([i \in 1 .. Len(parts) |-> item(parts[i])])

\* for idx, col in enumerate(cols), from the i-th column on; parts[idx]
\* raises IndexError beyond the end of the row, a fatal add ends the loop.
RECURSIVE apply_columns(_, _, _, _)
apply_columns(c, columns, parts, i) ==
    IF i > Len(columns) \/ c.ctx.died # 0 THEN [c |-> c, exc |-> ""]
    ELSE IF i > Len(parts) THEN [c |-> c, exc |-> "IndexError"]
    ELSE apply_columns(IF columns[i] = "path"
                       THEN set_path(c, path_list(<<parts[i]>>))
                       ELSE add(c, columns[i], parts[i]),
                       columns, parts, i + 1)

\* parse_bulk: one turn of "for parts in function(path)", up to the yield
apply_row(c, columns, parts) ==
    IF ~truthy(columns)
    THEN [c |-> set_path(c, path_list(parts)), exc |-> ""]
    ELSE apply_columns(c, columns.l, parts, 1)

----------------------------------------------------------------------------
(* bulk_import: the body of the loop over the rows.                        *)

\* ImportControl.COMMAND
COMMAND == <<"ome.formats.importer.cli.CommandLineImporter">>

\* sys.argv[0]
argv0 == "omero"

\* " ".join(['"%s"' % x for x in args])
RECURSIVE quote_join(_)
quote_join(args) ==
    IF args = <<>> THEN ""
    ELSE "\"" \o Head(args) \o "\""
         \o (IF Len(args) > 1 THEN " " ELSE "") \o quote_join(Tail(args))

\* The text a dry run writes for the row just applied.
dry_run_text(c) == quote_join(added_args(c))

\* The "%s" conversions of a template.
conversions(cs) ==
    {i \in 1 .. Len(cs) - 1 : cs[i] = "%" /\ cs[i + 1] = "s"}

RECURSIVE substitute(_, _)
substitute(cs, text) ==
    IF cs = <<>> THEN ""
    ELSE IF Len(cs) >= 2 /\ cs[1] = "%" /\ cs[2] = "s"
    THEN text \o substitute(SubSeq(cs, 3, Len(cs)), text)
    ELSE Head(cs) \o substitute(Tail(cs), text)

\* template % n with the rows counted from 0
format_from_zero(template, n) ==
    LET cs == Chars(template)
    IN  IF Cardinality(conversions(cs)) = 1
        THEN [exc |-> "", s |-> substitute(cs, ToString(n - 1))]
        ELSE [exc |-> "TypeError", s |-> ""]

\* template % n: one value takes exactly one conversion, or TypeError
format(template, n) ==
    LET cs == Chars(template)
    IN  IF Cardinality(conversions(cs)) = 1
        THEN [exc |-> "", s |-> substitute(cs, ToString(n))]
        ELSE [exc |-> "TypeError", s |-> ""]

\* "%x" % n
hex(n) ==
    IF n < 10 THEN ToString(n)
    ELSE <<"a", "b", "c", "d", "e", "f">>[n - 9]

\* The status of a row that keeps the last exit status in place of the sum
inspect_last_status(c, continuing, nfailed, sum) ==
    LET rv == c.ctx.rv
    IN  IF rv # 0
        THEN IF continuing
             THEN [c |-> c, failed |-> nfailed + 1, total |-> sum + rv,
                   msgs |-> <<"Import failed with error code: " \o ToString(rv)
                                  \o ". Continuing",
                              hex(nfailed + 1) \o " failed imports">>]
             ELSE [c |-> die(c, 106), failed |-> nfailed + 1,
                   total |-> sum + rv, msgs |-> <<>>]
        ELSE [c |-> c, failed |-> nfailed, total |-> sum,
              msgs |-> IF nfailed # 0
                       THEN <<hex(nfailed) \o " failed imports">> ELSE <<>>]

\* The status of a row that is never fatal
inspect_never_fatal(c, continuing, nfailed, sum) ==
    LET rv == c.ctx.rv
    IN  IF rv # 0
        THEN [c |-> [c EXCEPT !.ctx.rv = sum + rv],
              failed |-> nfailed + 1, total |-> sum + rv,
              msgs |-> <<"Import failed with error code: " \o ToString(rv)
                             \o ". Continuing",
                         hex(nfailed + 1) \o " failed imports">>]
        ELSE [c |-> [c EXCEPT !.ctx.rv = sum],
              failed |-> nfailed, total |-> sum,
              msgs |-> IF nfailed # 0
                       THEN <<hex(nfailed) \o " failed imports">> ELSE <<>>]

\* bulk_import: "if self.ctx.rv: ..." down to the end of the loop body
inspect(c, continuing, nfailed, sum) ==
    LET rv == c.ctx.rv
    IN  IF rv # 0
        THEN IF continuing
             THEN [c |-> [c EXCEPT !.ctx.rv = sum + rv],
                   failed |-> nfailed + 1, total |-> sum + rv,
                   msgs |-> <<"Import failed with error code: " \o ToString(rv)
                                  \o ". Continuing",
                              hex(nfailed + 1) \o " failed imports">>]
             ELSE [c |-> die(c, 106), failed |-> nfailed + 1,
                   total |-> sum + rv, msgs |-> <<>>]
        ELSE [c |-> [c EXCEPT !.ctx.rv = sum],
              failed |-> nfailed, total |-> sum,
              msgs |-> IF nfailed # 0
                       THEN <<hex(nfailed) \o " failed imports">> ELSE <<>>]

----------------------------------------------------------------------------
(* SpecRun: one bulk run over a row source, row by row.                    *)

\* What p.wait() can return: success, an error code, the number of a signal
\* negated.
ExitStatuses == {0, 2, -2}

\* One turn of "for cont in self.parse_bulk(...)": the generator opens the
\* row source, takes its next line, applies it to the argument set and
\* yields, and bulk_import counts the row; at the end of the file the loop
\* is over.
NextRow ==
    /\ pc = "rows"
    /\ LET file == abspath(cwd, rowpath.s)
       IN  IF file \notin DOMAIN rowfiles
           THEN /\ pc' = "finally"
                /\ call' = [op |-> "rows", key |-> "IOError", val |-> Str(file)]
                /\ UNCHANGED <<ca, lineno, incr, applied>>
           ELSE IF lineno = Len(rowfiles[file])
           THEN /\ pc' = "finally"
                /\ call' = [op |-> "rows", key |-> "StopIteration", val |-> None]
                /\ UNCHANGED <<ca, lineno, incr, applied>>
           ELSE LET line == rowfiles[file][lineno + 1]
                    parts == parts_of(function(cols, rowpath.s), line)
                    r == apply_row(ca, cols, parts)
                    raised == r.exc # "" \/ r.c.ctx.died # 0
                IN  /\ ca' = r.c
                    /\ lineno' = lineno + 1
                    /\ incr' = IF raised THEN incr ELSE incr + 1
                    /\ applied' = IF raised THEN applied
                                  ELSE Append(applied, added_args(r.c))
                    /\ pc' = IF raised THEN "finally" ELSE "run"
                    /\ call' = [op |-> "row", key |-> r.exc, val |-> None]
    /\ UNCHANGED <<ret, given, ncalls, fs, cwd, old_pwd, contents, bulkfile,
                   bulk, cont, cols, rowpath, rowfiles, failed, total, procs,
                   statuses, out, errlog, files,
                   iovars>>

\* The dry-run branch: the text of the row goes to the output stream, or to
\* the file the template names for this row.
DryRun ==
    /\ pc = "run"
    /\ truthy(ca.attrs["dry_run"])
    /\ LET rv == dry_run_text(ca)
           name == format(ca.attrs["dry_run"].s, incr)
       IN  IF lower(ca.attrs["dry_run"].s) = "true"
           THEN /\ out' = Append(out, rv)
                /\ pc' = "inspect"
                /\ call' = [op |-> "dry_run", key |-> "", val |-> None]
                /\ UNCHANGED files
           ELSE IF name.exc # ""
           THEN /\ pc' = "finally"
                /\ call' = [op |-> "dry_run", key |-> name.exc, val |-> None]
                /\ UNCHANGED <<out, files>>
           ELSE /\ files' = [f \in DOMAIN files \cup {name.s} |->
                               IF f = name.s
                               THEN argv0 \o " import " \o rv ELSE files[f]]
                /\ pc' = "inspect"
                /\ call' = [op |-> "dry_run", key |-> "", val |-> Str(name.s)]
                /\ UNCHANGED out
    /\ UNCHANGED <<ca, ret, given, ncalls, fs, cwd, old_pwd, contents,
                   bulkfile, bulk, cont, cols, rowpath, rowfiles, lineno,
                   incr, failed, total, procs, statuses, errlog, applied,
                   iovars>>

\* open_log(file, prefix, mode) with the log files as they are in d: no
\* handle for no file; IOError when the file cannot be opened; else the file
\* is open, emptied by mode "w" and created empty if it was not there.  The
\* directory of the file is there, so it is never made.
open_log(file, prefix, mode, d) ==
    IF ~truthy(file) THEN [exc |-> "", handle |-> "", d |-> d]
    ELSE LET name == IF truthy(prefix) THEN prefix.s \o "/" \o file.s
                     ELSE file.s
             f == abspath(cwd, name)
         IN  IF f \in env.locked
             THEN [exc |-> "IOError", handle |-> "", d |-> d]
             ELSE [exc |-> "", handle |-> f,
                   d |-> [g \in DOMAIN d \cup {f} |->
                            IF g = f /\ (mode = "w" \/ f \notin DOMAIN d)
                            THEN <<>> ELSE d[g]]]

\* open_files(mode): the handle for the output and the one for the errors,
\* opened in this order from the options the invocation was started with;
\* opened holds what was opened, also when the second open_log raised.
open_files(c, mode, d) ==
    LET o == open_log(c.args["file"], c.args["logprefix"], mode, d)
        e == open_log(c.args["errs"], c.args["logprefix"], mode, o.d)
        handle(stream, r) ==
            IF r.handle = "" THEN {}
            ELSE {[stream |-> stream, file |-> r.handle]}
    IN  IF o.exc # ""
        THEN [exc |-> o.exc, opened |-> {}, d |-> o.d]
        ELSE [exc |-> e.exc, opened |-> handle("out", o) \cup handle("err", e),
              d |-> e.d]

\* do_import that starts the external process and does not wait for it
Popen_no_wait ==
    /\ pc = "run"
    /\ ~truthy(ca.attrs["dry_run"])
    /\ LET mode == IF incr = 1 THEN "w" ELSE "a"
           o == open_files(ca, mode, disk)
       IN  /\ disk' = o.d
           /\ IF o.exc # ""
              THEN /\ handles' = handles \cup o.opened
                   /\ pc' = "finally"
                   /\ call' = [op |-> "popen", key |-> o.exc, val |-> None]
                   /\ UNCHANGED procs
              ELSE IF ~env.java
              THEN /\ handles' = handles
                   /\ pc' = "finally"
                   /\ call' = [op |-> "popen", key |-> "OSError", val |-> None]
                   /\ UNCHANGED procs
              ELSE /\ handles' = handles \cup o.opened
                   /\ procs' = Append(procs, [cmd |-> COMMAND \o java_args(ca),
                                              mode |-> mode])
                   /\ pc' = "inspect"
                   /\ call' = [op |-> "popen", key |-> "", val |-> None]
    /\ UNCHANGED <<ca, ret, given, ncalls, fs, cwd, old_pwd, contents,
                   bulkfile, bulk, cont, cols, rowpath, rowfiles, lineno,
                   incr, failed, total, statuses, out, errlog, files, applied,
                   env, archive, extracted, marker, holder,
                   shape>>

\* do_import, up to the start of the external process: the command is
\* COMMAND and java_args(), the mode is "w" for the first row and "a" after.
\* When open_files raises, out and err of do_import are still None and its
\* finally closes nothing; when popen raises, the finally closes both.
Popen ==
    /\ pc = "run"
    /\ ~truthy(ca.attrs["dry_run"])
    /\ LET mode == IF incr = 1 THEN "w" ELSE "a"
           o == open_files(ca, mode, disk)
       IN  /\ disk' = o.d
           /\ IF o.exc # ""
              THEN /\ handles' = handles \cup o.opened
                   /\ pc' = "finally"
                   /\ call' = [op |-> "popen", key |-> o.exc, val |-> None]
                   /\ UNCHANGED procs
              ELSE IF ~env.java
              THEN /\ handles' = handles
                   /\ pc' = "finally"
                   /\ call' = [op |-> "popen", key |-> "OSError", val |-> None]
                   /\ UNCHANGED procs
              ELSE /\ handles' = handles \cup o.opened
                   /\ procs' = Append(procs, [cmd |-> COMMAND \o java_args(ca),
                                              mode |-> mode])
                   /\ pc' = "wait"
                   /\ call' = [op |-> "popen", key |-> "", val |-> None]
    /\ UNCHANGED <<ca, ret, given, ncalls, fs, cwd, old_pwd, contents,
                   bulkfile, bulk, cont, cols, rowpath, rowfiles, lineno,
                   incr, failed, total, statuses, out, errlog, files, applied,
                   env, archive, extracted, marker, holder,
                   shape>>

\* do_import: self.ctx.rv = p.wait(), and the finally that closes out and
\* err.  The process has written its output, here the number of its row, to
\* the files it was started with; a wait that is interrupted raises.
Wait ==
    /\ pc = "wait"
    /\ \/ \E rv \in ExitStatuses :
             /\ ca' = [ca EXCEPT !.ctx.rv = rv]
             /\ statuses' = Append(statuses, rv)
             /\ disk' = [f \in DOMAIN disk |->
                           IF \E h \in handles : h.file = f
                           THEN Append(disk[f], incr) ELSE disk[f]]
             /\ call' = [op |-> "wait", key |-> "", val |-> None]
             /\ pc' = "inspect"
       \/ /\ call' = [op |-> "wait", key |-> "KeyboardInterrupt", val |-> None]
          /\ pc' = "finally"
          /\ UNCHANGED <<ca, statuses, disk>>
    /\ handles' = {}
    /\ UNCHANGED <<ret, given, ncalls, fs, cwd, old_pwd, contents,
                   bulkfile, bulk, cont, cols, rowpath, rowfiles, lineno, incr,
                   failed, total, procs, out, errlog, files, applied,
                   env, archive, extracted, marker, holder,
                   shape>>

\* The end of the loop body: the status of the row is inspected, counted
\* and summed; without cont a failure is fatal.
Inspect ==
    /\ pc = "inspect"
    /\ LET r == inspect(ca, cont, failed, total)
       IN  /\ ca' = r.c
           /\ failed' = r.failed
           /\ total' = r.total
           /\ errlog' = errlog \o r.msgs
           /\ pc' = IF r.c.ctx.died # 0 THEN "finally" ELSE "rows"
    /\ call' = [op |-> "inspect", key |-> "", val |-> None]
    /\ UNCHANGED <<ret, given, ncalls, fs, cwd, old_pwd, contents,
                   bulkfile, bulk, cont, cols, rowpath, rowfiles, lineno, incr,
                   procs, statuses, out, files, applied,
                   iovars>>

\* importer, for an invocation with --bulk and without --fetch-jars, in an
\* installation that has the directory of the client jars: no jars there is
\* fatal (103); then the argument set is constructed, which ca holds; paths
\* next to --bulk are fatal (104); else bulk_import runs.
Importer ==
    /\ pc = "importer"
    /\ truthy(ca.args["bulk"])
    /\ IF env.client = "empty"
       THEN /\ ca' = [ca EXCEPT !.ctx.died = 103]
            /\ pc' = "exit"
       ELSE IF truthy(ca.args["path"])
       THEN /\ ca' = [ca EXCEPT !.ctx.died = 104]
            /\ pc' = "exit"
       ELSE /\ pc' = "bulk_import"
            /\ UNCHANGED ca
    /\ call' = [op |-> "importer", key |-> "", val |-> None]
    /\ UNCHANGED <<ret, given, ncalls, fs, cwd, old_pwd, contents, bulkfile,
                   bulk, cont, cols, rowpath, runvars, iovars>>

NextRun ==
    \/ Importer
    \/ NextBulk
    \/ NextRow
    \/ DryRun
    \/ Popen
    \/ Wait
    \/ Inspect

\* The columns of the row sources that declare columns.
Columns == List(<<"path", "no_stats_info", "d">>)

\* The row source of a descriptor: its path, and its columns if any.
Layouts ==
    {[path |-> Absent, columns |-> Absent],
     [path |-> Str("rows.txt"), columns |-> Absent],
     [path |-> Str("rows.txt"), columns |-> Columns],
     [path |-> Str("rows.csv"), columns |-> Columns],
     [path |-> Str("rows.tsv"), columns |-> Columns]}

\* The root descriptor /a/a.yml of a run over a row source; of its options,
\* d is one the importer accepts, here with an integer for its value, and n
\* is one it does not know.
RunDescriptors ==
    {Mapping({<<"continue", continue>>, <<"dry_run", dry_run>>,
              <<"path", layout.path>>, <<"columns", layout.columns>>,
              option, <<"include", include>>}) :
        continue \in {Absent, True, False},
        dry_run \in {Absent, True, Str("/tmp/%s.sh"), Str("x.sh"), Str("")},
        layout \in Layouts,
        option \in {<<"d", Absent>>, <<"d", Int4>>, <<"n", Str("x")>>},
        include \in {Absent, Str("/b/b.yml")}}

\* The descriptor files of a run: the root, and the file it includes, which
\* is there or is not; the included file may be the one that declares the
\* row source.
RunFileSystems ==
    {("/a/a.yml" :> a) : a \in RunDescriptors}
    \cup {("/a/a.yml" :> a) @@ ("/b/b.yml" :> Mapping({<<"d", Str("2")>>})) :
            a \in {x \in RunDescriptors : Includes(x, "/b/b.yml")}}
    \cup {("/a/a.yml" :> a)
            @@ ("/b/b.yml" :> Mapping({<<"d", Str("2")>>,
                                       <<"path", Str("rows.txt")>>})) :
            a \in {x \in RunDescriptors :
                     Includes(x, "/b/b.yml") /\ "path" \notin DOMAIN x}}

\* The i-th line of a row source: a path, a value for no_stats_info and one
\* for d, with sep between them; padded, the line begins and ends with a
\* space.
RowLine(i, sep, padded) ==
    LET pad == IF padded THEN <<" ">> ELSE <<>>
    IN  pad \o <<(<<"a", "b", "c", "f", "g">>)[i], sep,
                 (<<"x", "y", "z", "u", "v">>)[i], sep,
                 (<<"7", "8", "9", "5", "6">>)[i]>> \o pad

\* The row sources with n lines each, next to the root descriptor, and one
\* next to the descriptor it includes; the second line of rows.txt is
\* padded.
RowFiles(n) ==
    ("/a/rows.txt" :> [i \in 1 .. n |-> RowLine(i, " ", i = 2)])
    @@ ("/b/rows.txt" :> [i \in 1 .. n |-> RowLine(i, " ", i = 2)])
    @@ ("/a/rows.csv" :> [i \in 1 .. n |-> RowLine(i, ",", FALSE)])
    @@ ("/a/rows.tsv" :> [i \in 1 .. n |-> RowLine(i, "\t", FALSE)])

\* The row sources of a run: none, or each of them with the same number of
\* lines.
RowFileSystems == {<<>>} \cup {RowFiles(n) : n \in 0 .. MaxRows}

\* The options of a run over /a/a.yml with log files for the output and the
\* errors of the external processes.
LogArgs(file, errs) ==
    [Args(False, Str("/a/a.yml"), None, None, None, List(<<>>))
        EXCEPT !["file"] = file, !["errs"] = errs]

\* The descriptors of the runs with log files: one names the file of the
\* output itself.
LogFileSystems ==
    {("/a/a.yml" :> Mapping({<<"path", Str("rows.txt")>>, option})) :
        option \in {<<"d", Absent>>, <<"file", Str("o.log")>>}}

\* The installations of the runs with log files: one of the files cannot be
\* opened, or the external process cannot be started.
LogEnvs ==
    {Env("jars", {}, TRUE), Env("jars", {"/a/o.log"}, TRUE),
     Env("jars", {"/a/e.log"}, TRUE), Env("jars", {}, FALSE)}

\* The log files before the run: each holds the output of an earlier run,
\* written 0.
OldLogs == ("/a/o.log" :> <<0>>) @@ ("/a/e.log" :> <<0>>)

\* A descriptor whose columns name an option the importer does not know.
UnknownColumn ==
    ("/a/a.yml" :> Mapping({<<"path", Str("rows.csv")>>,
                            <<"columns", List(<<"path", "n">>)>>}))

InitRun ==
    /\ \/ /\ ca = CommandArguments(Ctx,
                    Args(False, Str("/a/a.yml"), None, None, None, List(<<>>)))
          /\ fs \in RunFileSystems
          /\ rowfiles \in RowFileSystems
          /\ env = Env("jars", {}, TRUE)
          /\ disk = <<>>
       \/ /\ \E file \in {None, Str("o.log")}, errs \in {None, Str("e.log")} :
                ca = CommandArguments(Ctx, LogArgs(file, errs))
          /\ fs \in LogFileSystems
          /\ rowfiles \in RowFileSystems
          /\ env \in LogEnvs
          /\ disk = OldLogs
       \/ /\ \E paths \in {<<>>, <<"img.tif">>} :
                ca = CommandArguments(Ctx,
                        Args(False, Str("/a/a.yml"), None, None, None,
                             List(paths)))
          /\ fs = UnknownColumn
          /\ rowfiles = RowFiles(MaxRows)
          /\ env \in {Env("jars", {}, TRUE), Env("empty", {}, TRUE)}
          /\ disk = <<>>
    /\ cwd = "/w"
    /\ pc = "importer"
    /\ call = NoCall
    /\ ret = <<>>
    /\ given = <<>>
    /\ ncalls = 0
    /\ old_pwd = ""
    /\ contents = <<>>
    /\ bulkfile = None
    /\ bulk = <<>>
    /\ cont = FALSE
    /\ cols = None
    /\ rowpath = None
    /\ lineno = 0
    /\ incr = 0
    /\ failed = 0
    /\ total = 0
    /\ procs = <<>>
    /\ statuses = <<>>
    /\ out = <<>>
    /\ errlog = <<>>
    /\ files = <<>>
    /\ applied = <<>>
    /\ handles = {}
    /\ archive = {}
    /\ extracted = {}
    /\ marker = <<>>
    /\ holder = <<>>
    /\ shape = <<>>

SpecRun == InitRun /\ [][NextRun]_vars

----------------------------------------------------------------------------
(* SpecFetch: download_omero_java over the file names of a fetched         *)
(* archive, each a sequence of characters.                                 *)

\* ZipInfo.is_dir(): the name ends with a slash.
is_dir(name) == name # <<>> /\ name[Len(name)] = "/"

\* name.split(os.path.sep)[0]: the characters before the first slash.
first_part(name) ==
    LET slashes == {i \in DOMAIN name : name[i] = "/"}
    IN  IF slashes = {} THEN name
        ELSE SubSeq(name, 1, (CHOOSE i \in slashes : \A j \in slashes : i <= j) - 1)

\* os.path.isabs(p) of a sequence of characters.
isabs_chars(p) == p # <<>> /\ p[1] = "/"

\* set(f.filename.split(os.path.sep)[0] for f in zipfile.filelist
\*     if f.is_dir())
topdirs(names) == {first_part(name) : name \in {n \in names : is_dir(n)}}

\* The place ZipFile.extractall gives a name under the directory it extracts
\* to: the name without its leading slashes.
RECURSIVE member_path(_)
member_path(name) ==
    IF isabs_chars(name) THEN member_path(Tail(name)) ELSE name

\* download_omero_java, from the archive on: what it dies with, what it
\* extracts, and the marker OMERO.java.txt as a sequence of no text or one.
download_omero_java(names) ==
    IF Cardinality(topdirs(names)) # 1
    THEN [died |-> 108, extracted |-> {}, marker |-> <<>>]
    ELSE LET topdir == CHOOSE t \in topdirs(names) : TRUE
         IN  IF isabs_chars(topdir)
             THEN [died |-> 108, extracted |-> {}, marker |-> <<>>]
             ELSE [died |-> 0, extracted |-> {member_path(n) : n \in names},
                   marker |-> <<topdir>>]

\* importer with --fetch-jars: the archive is fetched, checked and
\* extracted, and the handler returns.
DownloadOmeroJava ==
    /\ pc = "fetch"
    /\ LET r == download_omero_java(archive)
       IN  /\ ca' = IF r.died # 0 THEN die(ca, r.died) ELSE ca
           /\ extracted' = r.extracted
           /\ marker' = r.marker
    /\ pc' = "exit"
    /\ call' = [op |-> "download_omero_java", key |-> "", val |-> None]
    /\ UNCHANGED <<ret, given, ncalls, fs, cwd, old_pwd, contents, bulkfile,
                   bulk, cont, cols, rowpath, runvars, handles, disk, env,
                   archive, holder, shape>>

\* The file names an archive is made of: directories t/, u/, t/l/ and /e/,
\* files t/j, j and /x.
Entries ==
    {<<"t", "/">>, <<"t", "/", "j">>, <<"t", "/", "l", "/">>, <<"u", "/">>,
     <<"j">>, <<"/", "e", "/">>, <<"/", "x">>}

InitFetch ==
    /\ ca = CommandArguments(Ctx,
               Args(False, None, None, None, None, List(<<>>)))
    /\ archive \in SUBSET Entries
    /\ extracted = {}
    /\ marker = <<>>
    /\ holder = <<>>
    /\ shape = <<>>
    /\ handles = {}
    /\ disk = <<>>
    /\ env = Env("jars", {}, TRUE)
    /\ call = NoCall
    /\ ret = <<>>
    /\ given = <<>>
    /\ ncalls = 0
    /\ fs = <<>>
    /\ cwd = "/w"
    /\ pc = "fetch"
    /\ old_pwd = ""
    /\ contents = <<>>
    /\ bulkfile = None
    /\ bulk = <<>>
    /\ cont = FALSE
    /\ cols = None
    /\ rowpath = None
    /\ rowfiles = <<>>
    /\ lineno = 0
    /\ incr = 0
    /\ failed = 0
    /\ total = 0
    /\ procs = <<>>
    /\ statuses = <<>>
    /\ out = <<>>
    /\ errlog = <<>>
    /\ files = <<>>
    /\ applied = <<>>

NextFetch == DownloadOmeroJava

SpecFetch == InitFetch /\ [][NextFetch]_vars

----------------------------------------------------------------------------
(* SpecRoi: an ellipse data holder of ROI_utils and the remote shape it is  *)
(* written to.                                                             *)

\* omero.rtypes.rint(val), rdouble(val): the value in its remote wrapper.
rint(val) == [rtype |-> "rint", val |-> val]
rdouble(val) == [rtype |-> "rdouble", val |-> val]

\* A field of a remote shape that was never set.
Unloaded == [rtype |-> "null", val |-> 0]

\* ROICoordinate(z, t)
ROICoordinate(z, t) == [theZ |-> rint(z), theT |-> rint(t)]

\* ROICoordinate.setROICoord(roi)
setROICoord(coord, roi) ==
    [roi EXCEPT !.theZ = coord.theZ, !.theT = coord.theT]

\* EllipseData(roicoord, cx, cy, rx, ry)
EllipseData(roicoord, cx, cy, rx, ry) ==
    [coord |-> roicoord, cx |-> rdouble(cx), cy |-> rdouble(cy),
     rx |-> rdouble(rx), ry |-> rdouble(ry)]

\* EllipseI(): the remote ellipse, nothing set.
EllipseI ==
    [theZ |-> Unloaded, theT |-> Unloaded, cx |-> Unloaded, cy |-> Unloaded,
     rx |-> Unloaded, ry |-> Unloaded]

\* EllipseData.setROIGeometry(ellipse)
setROIGeometry(self, ellipse) ==
    [ellipse EXCEPT !.theZ = self.coord.theZ,
                    !.theT = self.coord.theZ,
                    !.cx = self.cx,
                    !.cy = self.cy,
                    !.rx = self.rx,
                    !.ry = self.ry]

\* ShapeData.setROICoord(roi)
SetROICoord ==
    /\ pc = "roi"
    /\ shape' = setROICoord(holder.coord, shape)
    /\ call' = [op |-> "setROICoord", key |-> "", val |-> None]
    /\ UNCHANGED <<ca, ret, given, ncalls, bulkvars, runvars, handles, disk,
                   env, archive, extracted, marker, holder>>

\* EllipseData.setROIGeometry(ellipse)
SetROIGeometry ==
    /\ pc = "roi"
    /\ shape' = setROIGeometry(holder, shape)
    /\ call' = [op |-> "setROIGeometry", key |-> "", val |-> None]
    /\ UNCHANGED <<ca, ret, given, ncalls, bulkvars, runvars, handles, disk,
                   env, archive, extracted, marker, holder>>

\* The planes of the model: the values of Z and of T.
Planes == 0 .. MaxPlane

\* The centres and the radii of the ellipses of the model.
Lengths == {1, 2}

InitRoi ==
    /\ \E z \in Planes, t \in Planes, cx \in Lengths, cy \in Lengths,
          rx \in Lengths, ry \in Lengths :
          holder = EllipseData(ROICoordinate(z, t), cx, cy, rx, ry)
    /\ shape = EllipseI
    /\ ca = CommandArguments(Ctx,
               Args(False, None, None, None, None, List(<<>>)))
    /\ archive = {}
    /\ extracted = {}
    /\ marker = <<>>
    /\ handles = {}
    /\ disk = <<>>
    /\ env = Env("jars", {}, TRUE)
    /\ call = NoCall
    /\ ret = <<>>
    /\ given = <<>>
    /\ ncalls = 0
    /\ fs = <<>>
    /\ cwd = "/w"
    /\ pc = "roi"
    /\ old_pwd = ""
    /\ contents = <<>>
    /\ bulkfile = None
    /\ bulk = <<>>
    /\ cont = FALSE
    /\ cols = None
    /\ rowpath = None
    /\ rowfiles = <<>>
    /\ lineno = 0
    /\ incr = 0
    /\ failed = 0
    /\ total = 0
    /\ procs = <<>>
    /\ statuses = <<>>
    /\ out = <<>>
    /\ errlog = <<>>
    /\ files = <<>>
    /\ applied = <<>>

NextRoi ==
    \/ SetROICoord
    \/ SetROIGeometry

SpecRoi == InitRoi /\ [][NextRoi]_vars

----------------------------------------------------------------------------
(* Properties of the bulk run over its rows.                               *)

\* The descriptor as merged from the loaded chain, before parse_bulk pops it.
Descriptor == merge(contents)

\* parse_bulk has run its header: the loop over the rows is entered, or the
\* run ended in it or after it.
HeaderDone ==
    \/ pc \in {"rows", "run", "wait", "inspect"}
    \/ /\ pc \in {"finally", "exit"}
       /\ call.op \in {"parse_bulk", "rows", "row", "dry_run", "popen", "wait",
                       "inspect"}

\* The run is over, and the row source was read to its end.
Completed == pc = "exit" /\ call.op = "rows" /\ call.key = "StopIteration"

\* The lines of the row source of the run.
RowSource == rowfiles[abspath(contents[1].parent, rowpath.s)]

RECURSIVE Sum(_)
Sum(seq) == IF seq = <<>> THEN 0 ELSE Head(seq) + Sum(Tail(seq))

\* The rows whose external process exited nonzero.
Nonzero(seq) == {i \in DOMAIN seq : seq[i] # 0}

\* The last token of a command.
Last(seq) == seq[Len(seq)]

\* C11: in a bulk run that declares continue: true, no exit status ends the
\* run (it never dies with 106); once the status of a row is inspected, and
\* so at the end, the failure count is the number of rows whose process
\* exited nonzero and the status of the run is the sum of the exit statuses; and a run that reads its row
\* source to the end has started one process per row, in the order of the
\* lines (dry runs start none).
C11_ContinueProcessesAllRows ==
    (HeaderDone /\ get(Descriptor, "continue") = True) =>
        /\ ca.ctx.died # 106
        /\ pc # "inspect" =>
              /\ failed = Cardinality(Nonzero(statuses))
              /\ total = Sum(statuses)
              /\ ca.ctx.rv = Sum(statuses)
        /\ Completed =>
              /\ incr = Len(RowSource)
              /\ ~truthy(ca.attrs["dry_run"]) =>
                    /\ Len(statuses) = Len(RowSource)
                    /\ Len(procs) = Len(RowSource)
                    /\ \A i \in DOMAIN procs :
                          Last(procs[i].cmd) = Last(applied[i])
                    /\ \A i \in DOMAIN applied :
                          Last(applied[i])
                            = item(parts_of(function(cols, rowpath.s),
                                            RowSource[i])[1])

\* C11: three rows of which the second fails, with continue: true: the run
\* is over with one failure counted and the status of the second row.
C11_Witness ==
    /\ Completed
    /\ get(Descriptor, "continue") = True
    /\ statuses = <<0, 2, 0>>
    /\ failed = 1
    /\ ca.ctx.rv = 2

\* The run stopped at the row whose exit status is the last one recorded:
\* the status is being inspected or the run died with 106 on it, and no row
\* after it was read, applied or run.
StoppedAtLastStatus ==
    /\ pc \in {"inspect", "finally", "exit"}
    /\ pc # "inspect" => ca.ctx.died = 106
    /\ lineno = Len(statuses)
    /\ incr = Len(statuses)
    /\ Len(applied) = Len(statuses)
    /\ Len(procs) = Len(statuses)

\* C12: in a bulk run whose descriptor chain does not declare continue, a
\* nonzero exit status is the last one of the run: the run dies with 106 on
\* that row, no later row is applied to the argument set and no further
\* process is started.
C12_FirstFailureIsFatal ==
    (HeaderDone /\ "continue" \notin DOMAIN Descriptor) =>
        \A i \in Nonzero(statuses) : i = Len(statuses) /\ StoppedAtLastStatus

\* C12: a run over three rows without continue is over with 106 after its
\* second row failed.
C12_Witness ==
    /\ pc = "exit"
    /\ "continue" \notin DOMAIN Descriptor
    /\ statuses = <<0, 2>>
    /\ Len(RowSource) = 3
    /\ ca.ctx.died = 106
    /\ Len(procs) = 2

\* C13: a failed row is recovered only when the continue value of the
\* descriptor is true: with any other value, or without the key, a nonzero
\* exit status is the last one of the run, which dies with 106 on that row.
C13_OnlyTrueContinues ==
    (HeaderDone /\ get(Descriptor, "continue") # True) =>
        \A i \in Nonzero(statuses) : i = Len(statuses) /\ StoppedAtLastStatus

\* str() of the dry_run value the descriptor declares.
DryRunValue == Descriptor["dry_run"].s

\* The rows a dry run has written out: all the rows applied, but the one
\* that is about to be written or whose template raised.
DryRunsDone == IF pc = "run" \/ call.key = "TypeError" THEN incr - 1 ELSE incr

\* Each token between double quotes, a space between two tokens.
RECURSIVE Quoted(_)
Quoted(tokens) ==
    IF tokens = <<>> THEN ""
    ELSE IF Len(tokens) = 1 THEN "\"" \o tokens[1] \o "\""
    ELSE "\"" \o Head(tokens) \o "\" " \o Quoted(Tail(tokens))

\* The additional-argument text of the argument set: the orchestrator
\* additions, the external additions, the path list.
ArgumentText ==
    Quoted(ca.py_additional \o ca.java_additional \o ca.attrs["path"].l)

\* The row whose text a dry run has just written.
JustWritten == call.op = "dry_run" /\ call.key = "" /\ pc = "inspect"

TemplateFile(i) == "/tmp/" \o ToString(i) \o ".sh"

\* The path the i-th line of the row source stands for.
PathOfRow(i) == item(parts_of(function(cols, rowpath.s), RowSource[i])[1])

\* C15: in a dry run with the template /tmp/%s.sh, the rows written so far
\* are in the files /tmp/1.sh, /tmp/2.sh, ... and in no other file, the file
\* of the i-th row holding the command text of the argument set as the i-th
\* row left it, which ends with the path of that row; a run over N rows
\* ends with exactly N files.
C15_OneFilePerRow ==
    (HeaderDone /\ "dry_run" \in DOMAIN Descriptor
        /\ DryRunValue = "/tmp/%s.sh") =>
        /\ DOMAIN files = {TemplateFile(i) : i \in 1 .. DryRunsDone}
        /\ Cardinality(DOMAIN files) = DryRunsDone
        /\ \A i \in 1 .. DryRunsDone :
              /\ files[TemplateFile(i)] = "omero import " \o Quoted(applied[i])
              /\ Last(applied[i]) = PathOfRow(i)
        /\ JustWritten => files[TemplateFile(incr)]
                              = "omero import " \o ArgumentText
        /\ Completed => DryRunsDone = Len(RowSource)

\* C15: a dry run with the template over three rows is over, with the
\* three files, the third one holding the text of the third row.
C15_Witness ==
    /\ Completed
    /\ get(Descriptor, "dry_run") = Str("/tmp/%s.sh")
    /\ DOMAIN files = {"/tmp/1.sh", "/tmp/2.sh", "/tmp/3.sh"}
    /\ files["/tmp/3.sh"] = "omero import \"-d\" \"9\" \"c\""
    /\ files["/tmp/2.sh"] = "omero import \"-d\" \"8\" \"b\""

\* The tokens hold want as a run of consecutive tokens.
Rendered(tokens, want) ==
    \E i \in 1 .. Len(tokens) :
        i + Len(want) - 1 <= Len(tokens)
        /\ SubSeq(tokens, i, i + Len(want) - 1) = want

\* The rendition of an external option with a text for its value.
RenditionOf(key, text) ==
    IF len(key) = 1 THEN <<"-" \o key, text>>
    ELSE <<"--" \o Hyphenated(key) \o "=" \o text>>

\* The fields of a line whose fields are of one character each: what is
\* left of the line without its separators.
FieldsOf(line, separators) ==
    SelectSeq(line, LAMBDA ch : ch \notin separators)

\* The row just applied gave every column its field: the path list is the
\* field of the column path alone, every other column is rendered in the
\* external additional arguments with its field.
ColumnsReceive(fields) ==
    /\ call.key = ""
    /\ ca.ctx.died = 0
    /\ \A i \in DOMAIN cols.l :
          IF cols.l[i] = "path"
          THEN ca.attrs["path"] = List(<<fields[i]>>)
          ELSE Rendered(ca.java_additional, RenditionOf(cols.l[i], fields[i]))

\* A line of the row source was just applied, with columns declared.
RowApplied == call.op = "row" /\ truthy(cols)

\* C16: with columns declared and a row source that is neither .tsv nor
\* .csv, column i receives the i-th word of the line.
C16_ShlexColumnsReceiveWords ==
    (RowApplied /\ rowpath.s = "rows.txt") =>
        ColumnsReceive(FieldsOf(RowSource[lineno], Whitespace))

\* The separator of the fields of a .csv and of a .tsv row source.
SeparatorOf(path) == IF path = "rows.tsv" THEN {"\t"} ELSE {","}

\* C17: with columns declared and a .csv or .tsv row source, applying a row
\* sets the path list to the field of the column path alone and renders
\* every other column in the external arguments with the field at its index.
C17_CsvColumnsReceiveFields ==
    (RowApplied /\ rowpath.s \in {"rows.csv", "rows.tsv"}) =>
        ColumnsReceive(FieldsOf(RowSource[lineno], SeparatorOf(rowpath.s)))

\* The line without the whitespace at its end.
RECURSIVE RightTrimmed(_)
RightTrimmed(line) ==
    IF line # <<>> /\ Last(line) \in Whitespace
    THEN RightTrimmed(SubSeq(line, 1, Len(line) - 1)) ELSE line

\* The line from its first to its last character that is no whitespace.
Trimmed(line) ==
    LET inked == {i \in DOMAIN line : line[i] \notin Whitespace}
    IN  IF inked = {} THEN <<>>
        ELSE SubSeq(line, CHOOSE i \in inked : \A j \in inked : i <= j,
                          CHOOSE i \in inked : \A j \in inked : i >= j)

\* The characters in one string.
RECURSIVE Text(_)
Text(line) == IF line = <<>> THEN "" ELSE Head(line) \o Text(Tail(line))

\* A line of the row source was just applied, with no columns declared.
LineApplied == call.op = "row" /\ ~truthy(cols)

\* C18 as stated: with no columns declared, the path list after a line is
\* the one element that is the line without its trailing whitespace, the
\* leading characters kept.
C18_PathIsLineRightTrimmed ==
    LineApplied =>
        ca.attrs["path"] = List(<<Text(RightTrimmed(RowSource[lineno]))>>)

\* C18, amended: with no columns declared, every line of the row source is
\* applied without an error, and the path list after it is the one element
\* that is the line without its leading and its trailing whitespace.
C18_PathIsLineTrimmed ==
    LineApplied =>
        /\ call.key = ""
        /\ pc = "run"
        /\ ca.attrs["path"] = List(<<Text(Trimmed(RowSource[lineno]))>>)

\* C18: the padded second line " b y 8 " was applied: the path list is the
\* line without its first and its last space.
C18_Witness ==
    /\ LineApplied
    /\ lineno = 2
    /\ RowSource[lineno] = <<" ", "b", " ", "y", " ", "8", " ">>
    /\ ca.attrs["path"] = List(<<"b y 8">>)

\* C19: when the merged descriptor has no path key the run dies with 107 in
\* the header of parse_bulk: no line of a row source is read or applied, no
\* row is counted, no process is started and a dry run writes nothing.
C19_NoPathIsFatal ==
    (HeaderDone /\ "path" \notin DOMAIN Descriptor) =>
        /\ ca.ctx.died = 107
        /\ pc \in {"finally", "exit"}
        /\ call.op = "parse_bulk"
        /\ procs = <<>>
        /\ statuses = <<>>
        /\ lineno = 0
        /\ incr = 0
        /\ applied = <<>>
        /\ ca.attrs["path"] = List(<<>>)
        /\ out = <<>>
        /\ files = <<>>

\* C19: a run whose chain of two descriptors declares no path is over with
\* 107, the row sources being there with three lines each.
C19_Witness ==
    /\ pc = "exit"
    /\ call.op = "parse_bulk"
    /\ Len(contents) = 2
    /\ "path" \notin DOMAIN Descriptor
    /\ ca.ctx.died = 107
    /\ rowfiles = RowFiles(3)
    /\ procs = <<>>

\* How a finished run ended: the exception that ended it, the code it died
\* with, or the end of its row source.
ExitPath ==
    IF call.key \in {"IOError", "IndexError", "TypeError"} THEN call.key
    ELSE IF call.key \in {"OSError", "KeyboardInterrupt"} THEN call.key
    ELSE IF ca.ctx.died # 0 THEN ToString(ca.ctx.died)
    ELSE "completed"

\* C20: when bulk_import has finished, the working directory is the one it
\* started in, whether the run read its row source to the end, died (107,
\* 200, 106), or was ended by an exception while a descriptor was loaded or
\* a row was read, applied or written; and it finishes in no other way.
C20_WorkingDirectoryRestored ==
    pc = "exit" /\ call.op # "importer" =>
        /\ cwd = "/w"
        /\ old_pwd = "/w"
        /\ ExitPath = "completed" => Completed
        /\ ExitPath \in {"completed", "106", "107", "200", "IOError",
                         "IndexError", "TypeError", "OSError",
                         "KeyboardInterrupt"}

\* C20: a run over a chain of two descriptors in two directories, ended by
\* die(106) at its second row, is back in the directory it started in.
C20_Witness ==
    /\ pc = "exit"
    /\ Len(contents) = 2
    /\ contents[1].parent = "/a"
    /\ contents[2].parent = "/b"
    /\ ca.ctx.died = 106
    /\ Len(statuses) = 2
    /\ cwd = "/w"

\* The directory of the descriptor whose value of key the merge keeps: the
\* first one along the chain, from the root, that declares the key.
DeclarerDir(key) ==
    LET declaring == {i \in DOMAIN contents : key \in DOMAIN contents[i].data}
    IN  contents[CHOOSE i \in declaring : \A j \in declaring : i <= j].parent

\* C21: every descriptor of the chain but the root is the include target of
\* the one before it, resolved in the directory of that one; and while the
\* rows are read the working directory, in which the row source is opened,
\* is the directory of the descriptor that declares path.
C21_PathsResolveAgainstDeclarer ==
    /\ \A i \in 2 .. Len(contents) :
          contents[i].bulkfile
            = abspath(contents[i - 1].parent, contents[i - 1].data["include"].s)
    /\ pc \in {"rows", "run", "wait", "inspect"} => cwd = DeclarerDir("path")


\* The log files the run is configured with: the values of file and errs,
\* given as options of the invocation or as keys of the descriptor, in the
\* directory the rows are run in.
LogFiles ==
    {abspath(contents[1].parent, v.s) :
        v \in {w \in {ca.args["file"], ca.args["errs"],
                      get(Descriptor, "file"), get(Descriptor, "errs")} :
                 truthy(w)}}

\* The output of the rows 1 .. n, in this order.
OutputOfRows(n) == [i \in 1 .. n |-> i]

\* C22: when a run that is not a dry run has read a row source of one row
\* or more to the end, the first external process was started with the log
\* files opened in mode "w" and every later one in mode "a", and each
\* configured log file holds the output of all rows in row order and
\* nothing from before the run.
C22_LogsHoldAllRows ==
    Completed /\ ~truthy(ca.attrs["dry_run"]) /\ procs # <<>> =>
        /\ \A i \in DOMAIN procs : procs[i].mode = IF i = 1 THEN "w" ELSE "a"
        /\ \A f \in LogFiles :
              f \in DOMAIN disk /\ disk[f] = OutputOfRows(Len(procs))


\* C23: outside do_import no log file is open: every handle its open_files
\* step opened is closed when do_import is left, in whatever way, and so
\* when the run ends.
C23_NoHandleLeftOpen == pc # "wait" => handles = {}


\* The codes of the fatal configuration errors: no client jars (103), paths
\* next to --bulk (104), no row source in the descriptor (107), an unknown
\* argument key (200), a path that is not a list (202).
ConfigurationErrors == {103, 104, 107, 200, 202}

\* The run has ended with a configuration error: it died with one of the
\* codes, or a descriptor or the row source could not be opened.
ConfigurationError ==
    \/ ca.ctx.died \in ConfigurationErrors
    \/ call.op \in {"open", "rows"} /\ call.key = "IOError"

\* C24: a run that has reported a fatal configuration error has started no
\* external process, neither before the report nor after it.
C24_FatalBeforeAnyProcess == ConfigurationError => procs = <<>>

\* C24: the descriptor declares the columns path and n, and the first row is
\* read and applied: the unknown key n is fatal (200) there, before the
\* process of the first row.
C24_Witness ==
    /\ ca.ctx.died = 200
    /\ pc = "exit"
    /\ cols = List(<<"path", "n">>)
    /\ lineno = 1
    /\ procs = <<>>


\* C25: the external processes of a run are started and waited for one at a
\* time: at most one process has not exited, and only while do_import waits
\* for it (or when that wait was interrupted, which ends the run); the i-th
\* process is the one of the i-th line of the row source; and while a
\* process runs and until its status is inspected, the argument set is the
\* one the process was started with.
C25_StrictlySequential ==
    /\ Len(procs) - Len(statuses) \in {0, 1}
    /\ Len(procs) > Len(statuses) =>
          pc = "wait" \/ call.key = "KeyboardInterrupt"
    /\ \A i \in DOMAIN procs : Last(procs[i].cmd) = PathOfRow(i)
    /\ (pc \in {"wait", "inspect"} /\ procs # <<>>) =>
          /\ Len(procs) = lineno
          /\ Last(procs).cmd = COMMAND \o java_args(ca)
          /\ Last(applied) = added_args(ca)

\* C25: the process of the third row runs, after the processes of the first
\* two rows have exited, the first of them nonzero.
C25_Witness ==
    /\ pc = "wait"
    /\ Len(procs) = 3
    /\ statuses = <<2, 0>>
    /\ lineno = 3


\* The top-level directories of an archive: the first parts of the names of
\* its directories.
TopLevelDirectories(names) == topdirs(names) \ {<<>>}

\* C26: when download_omero_java has ended, either the archive has exactly
\* one top-level directory and no name that is an absolute path, and it is
\* extracted and the marker names that directory; or the run died with 108,
\* nothing is extracted and no marker is written.
C26_OnlySoundArchivesExtracted ==
    pc = "exit" /\ call.op = "download_omero_java" =>
        IF /\ Cardinality(TopLevelDirectories(archive)) = 1
           /\ \A name \in archive : ~isabs_chars(name)
        THEN /\ ca.ctx.died = 0
             /\ extracted = archive
             /\ marker = <<CHOOSE t \in TopLevelDirectories(archive) : TRUE>>
        ELSE /\ ca.ctx.died = 108
             /\ extracted = {}
             /\ marker = <<>>


\* The reports of the count of failed rows that were written.
FailureReports ==
    {i \in DOMAIN errlog :
        \E n \in 1 .. MaxRows : errlog[i] = hex(n) \o " failed imports"}

\* C27: the count of failed rows is not reported before the last row of the
\* row source has been processed; and a run that read its row source to the
\* end, be it empty, has the sum of the exit statuses for its status.
C27_FailuresReportedAfterLoop ==
    /\ FailureReports # {} => lineno = Len(RowSource)
    /\ Completed => ca.ctx.rv = Sum(statuses)

\* C28: the loading of the include chain ends, in a merged mapping or a
\* fatal error: the loop never turns to a descriptor file it has loaded.
\* What the loop does after a load depends on the loaded file alone, so a
\* file that is loaded a second time is loaded again and again, and the loop
\* never ends.
C28_NoDescriptorLoadedTwice ==
    (pc = "load" /\ truthy(bulkfile)) =>
        \A i \in DOMAIN contents :
            contents[i].bulkfile # abspath(cwd, bulkfile.s)


\* C29: when a run that continues after errors has read its row source to
\* the end, its status is nonzero exactly when the external process of some
\* row exited nonzero.
C29_StatusTellsFailure ==
    (Completed /\ cont) =>
        (ca.ctx.rv # 0 <=> \E i \in DOMAIN statuses : statuses[i] # 0)


\* The argument set as the header of parse_bulk leaves it: a function of the
\* options of the invocation and of the merged descriptor (which here has at
\* most one key for add, so one order of its keys).
Header ==
    LET keys == DOMAIN Descriptor \ SpecialKeys
    IN  parse_bulk(CommandArguments(Ctx, ca.args), Descriptor,
                   CHOOSE order \in Orders(keys) : TRUE)

\* The command of the i-th row, had it been the only row of the row source.
CommandOfRowAlone(i) ==
    COMMAND \o java_args(apply_row(Header, cols,
                  parts_of(function(cols, rowpath.s), RowSource[i])).c)

\* C30: with columns declared and as many fields in every row as there are
\* columns, the command the external process of the i-th row was started
\* with is the one the header and the i-th row alone give: nothing of an
\* earlier row is in it.
C30_RowAloneDeterminesCommand ==
    (procs # <<>> /\ truthy(cols)) =>
        \A i \in DOMAIN procs : procs[i].cmd = CommandOfRowAlone(i)

\* C30: three rows of a .csv row source were run, over a descriptor that
\* itself sets d, the option the third column sets again in every row.
C30_Witness ==
    /\ Len(procs) = 3
    /\ Len(statuses) = 3
    /\ truthy(cols)
    /\ rowpath = Str("rows.csv")
    /\ "d" \in DOMAIN Descriptor
    /\ Last(procs).cmd = COMMAND \o <<"-s", "localhost", "-p", "4064", "-k", "uuid", "-d", "9", "c">>


\* C31: after EllipseData.setROIGeometry the remote shape has the Z and the
\* T of the coordinate of the holder, and its cx, cy, rx and ry.
C31_EllipseFieldsCopied ==
    call.op = "setROIGeometry" =>
        /\ shape.theZ = holder.coord.theZ
        /\ shape.theT = holder.coord.theT
        /\ shape.cx = holder.cx
        /\ shape.cy = holder.cy
        /\ shape.rx = holder.rx
        /\ shape.ry = holder.ry

====
